---- MODULE Spec2Model ----
(***************************************************************************)
(* Model of the Napta automation client (timesheetbot_agent/napta.py).     *)
(*                                                                         *)
(* The client drives a browser page of a third-party web application.      *)
(* The page is the environment: every browser call of the client is one    *)
(* step whose outcome (element present or not, click performed or timed    *)
(* out, click taking effect in the application or not, page rendered in    *)
(* time or not, call raising) is chosen nondeterministically.  What the    *)
(* client does with those outcomes is translated from the source.         *)
(***************************************************************************)
EXTENDS Integers, Sequences, FiniteSets, TLC

\* ------------------------------------------------------------------ bounds
\* weeks are numbered relative to the current week: 0 = this week, 1 = next
MaxWeek == 2
\* number of public operations started in one behaviour
MaxOps == 2
\* close() calls between two operations
MaxCloses == 2

\* --------------------------------------------------------- program constants
\* `while attempts < 3` in _go_to_next_week
NavAttempts == 3
\* _view_cache_get: an entry is fresh while it is less than 10 seconds old
CacheTtl == 10
\* an age below the cache's lifetime, in seconds
TickS == 5

Weeks == 0..MaxWeek

\* lifecycle of one week's timesheet in the remote application
Status == {"NotCreated", "Draft", "SubmitReady", "ApprovalPending", "Submitted"}
Terminal == {"ApprovalPending", "Submitted"}
\* a week whose status the client has not read yet: which status it has is
\* settled by the first read
Unseen == "unseen"

\* value of the Python local `state`; "None" is Python's None
None == "None"

VARIABLES
    week,       \* remote application: status of each week's timesheet
    loginPage,  \* remote application: the site answers with its sign-in page
    shown,      \* page: the week the page displays
    header,     \* page: the period header (title, day columns) has rendered
    rendered,   \* page: the controls and the status chip have rendered
    toast,      \* page: a "Saved" confirmation is showing
    handles,    \* client: which of _p, _browser, _ctx, _page are set
    live,       \* browsers this client launched that have not been torn down
    closes,     \* history: close() calls since the last operation
    closeErr,   \* history: a teardown step of the last close() raised (and was
                \* swallowed)
    age,        \* seconds since the cache entry was written, as this call reads them
    cache,      \* client: view_cache.json
    op,         \* public operation in progress ("idle" when none)
    which,      \* argument of view_week
    proc,       \* the *_fast method that is executing (when idle: that ran last)
    pc,         \* position inside proc
    state,      \* local `state` of the executing method
    before,     \* local `before` of _go_to_next_week
    attempts,   \* local `attempts` of _go_to_next_week
    ret,        \* what the executing method returned (or raised)
    saveRes,    \* save_and_submit_current_week: result of its save step
    result,     \* result of the operation (kind "none" while it runs)
    prev,       \* history: the operation before this one was a save_current_week
                \* that returned True, "Saved (draft)."
    nops,       \* operations started so far
    loaded,     \* history: _open_timesheet loaded a page in this method
    clicks,     \* history: Create/Save/Submit clicks requested in this operation
    dets,       \* history: what each state detection of this method saw
    sawToast,   \* history: _saw_saved_toast returned True in this method
    verified,   \* history: _wait_until_submitted returned True in this method
    wrote,      \* history: ctx.storage_state(path=STATE_PATH) succeeded in this
                \* operation
    cli,        \* _run_napta_action: the build, the caller's event loop, where
                \* the action is, and the keyboard interrupt it got
    out,        \* what _run_napta_action returned (or raised)
    fcall,      \* a pure function of the client: the call made
    fret,       \* a pure function of the client: what the call returned
    polls       \* the fruitless iterations the wait loop in progress has made

page == <<shown, header, rendered, toast>>
hist == <<loaded, clicks, dets, sawToast, verified, wrote>>
sess == <<handles, live, closes, closeErr, age>>
nav == <<before, attempts>>
app == <<week, loginPage>>
ctl == <<op, which, proc, pc>>
\* what no step of the client writes
ext == <<cli, out, fcall, fret>>
\* a step of a method is the last iteration of the wait loop it is in, if it
\* is in one: the count of the iterations before it is gone
LoopLeft == polls' = 0
vars == <<week, loginPage, shown, header, rendered, toast, handles, live, closes,
          closeErr, age, cache, op, which, proc, pc, state, before, attempts, ret,
          saveRes, result, prev, nops, loaded, clicks, dets, sawToast, verified,
          wrote, cli, out, fcall, fret, polls>>

\* ------------------------------------------------------------ result values
NoResult == [kind |-> "none", ok |-> FALSE, msg |-> "", shot |-> FALSE]
\* an exception left the operation
Raised(what) == [kind |-> "raised", ok |-> FALSE, msg |-> what, shot |-> FALSE]
\* return ok, msg   (shot: the message ends in "Screenshot -> <name>")
Ret(ok, msg, shot) == [kind |-> "returned", ok |-> ok, msg |-> msg, shot |-> shot]

\* view_cache.json absent (or unreadable)
NoCache == [which |-> "none", text |-> ""]

NoHandles == [p |-> FALSE, browser |-> FALSE, ctx |-> FALSE, page |-> FALSE]
AllHandles == [p |-> TRUE, browser |-> TRUE, ctx |-> TRUE, page |-> TRUE]

\* ---------------------------------------------------------------- the page
\* The controls the page shows for the displayed week.  The application
\* shows one of Create / Save / Submit, according to the week's status, and
\* none of them once the week is submitted; nothing shows before the DOM
\* has rendered.
VisibleOf(st, r) ==
    IF ~r THEN {}
    ELSE CASE st = "NotCreated" -> {"create"}
           [] st = "Draft" -> {"save"}
           [] st = "SubmitReady" -> {"submit"}
           [] OTHER -> {}

Visible(r) == VisibleOf(week[shown], r)

\* _get_status_chip_text: the status text near the header, lower-cased
ChipOf(st, r) ==
    IF ~r THEN ""
    ELSE CASE st = "NotCreated" -> "not created"
           [] st = "Draft" -> "draft"
           [] st = "SubmitReady" -> "draft"
           [] st = "ApprovalPending" -> "approval pending"
           [] st = "Submitted" -> "submitted"
           [] OTHER -> ""

StatusChipText(r) == ChipOf(week[shown], r)

\* the client reads the status of week w for the first time in this
\* behaviour: it can be any status; a week read before keeps the status it had
FirstRead(w) ==
    IF week[w] = Unseen
    THEN \E st \in Status : week' = [week EXCEPT ![w] = st]
    ELSE week' = week

\* A read of the page: a part of the page that has not rendered yet may
\* finish rendering while the client waits; a rendered part stays rendered.
Renders == IF rendered THEN {TRUE} ELSE BOOLEAN
HeaderRenders == IF header THEN {TRUE} ELSE BOOLEAN

\* no pure function is being called
NoCall == [fn |-> "none"]

\* the client is called directly, not through _run_napta_action
NoCli == [frozen |-> FALSE, loop |-> FALSE, at |-> "direct", sigint |-> "none"]

\* ------------------------------------------------------------------ Init
\* a client just constructed, and the remote application not looked at yet
InitClient ==
    /\ week = [w \in Weeks |-> Unseen]
    /\ loginPage \in BOOLEAN
    /\ shown = 0
    /\ header = FALSE
    /\ rendered = FALSE
    /\ toast = FALSE
    /\ handles = NoHandles
    /\ live = 0
    /\ closes = 0
    /\ closeErr = FALSE
    /\ age = 0
    /\ wrote = FALSE
    /\ cache = NoCache
    /\ op = "idle"
    /\ which = "current"
    /\ proc = "none"
    /\ pc = "idle"
    /\ state = None
    /\ before = 0
    /\ attempts = 0
    /\ ret = NoResult
    /\ saveRes = NoResult
    /\ result = NoResult
    /\ prev = FALSE
    /\ nops = 0
    /\ loaded = FALSE
    /\ clicks = <<>>
    /\ dets = <<>>
    /\ sawToast = FALSE
    /\ verified = FALSE

Init ==
    /\ InitClient
    /\ cli = NoCli
    /\ out = NoResult
    /\ fcall = NoCall
    /\ fret = NoCall
    /\ polls = 0

\* ------------------------------------------------------- public operations
Operations == {"login", "view_week", "save_current_week", "save_next_week",
               "submit_current_week", "submit_next_week",
               "save_and_submit_current_week"}

\* the method a public operation calls first
FirstProc(o) ==
    CASE o = "view_week" -> "view"
      [] o = "login" -> "login"
      [] o = "save_current_week" -> "save_current"
      [] o = "save_next_week" -> "save_next"
      [] o = "submit_current_week" -> "submit_current"
      [] o = "submit_next_week" -> "submit_next"
      [] OTHER -> "save_current"

\* start of a *_fast method: its locals and the per-method history are fresh
Enter(p) ==
    /\ proc' = p
    /\ pc' = CASE p = "view" -> "cache"
               [] p = "login" -> "login_mode"
               [] OTHER -> "ensure"
    /\ state' = None
    /\ before' = 0
    /\ attempts' = 0
    /\ ret' = NoResult
    /\ loaded' = FALSE
    /\ dets' = <<>>
    /\ sawToast' = FALSE
    /\ verified' = FALSE
    /\ wrote' = FALSE

\* time.time() - d["ts"]: seconds between the write of the cache entry and
\* the call that reads it: a few, or the cache's lifetime and more
Elapsed == {TickS, CacheTtl}

\* the caller invokes a public operation of the client; a view_week that
\* finds a cache entry finds it dt seconds old
Call(o, w, dt) ==
    /\ op = "idle"
    /\ nops < MaxOps
    /\ op' = o
    /\ which' = w
    /\ Enter(FirstProc(o))
    /\ nops' = nops + 1
    /\ prev' = (result = Ret(TRUE, "Saved (draft).", FALSE))
    /\ result' = NoResult
    /\ saveRes' = NoResult
    /\ clicks' = <<>>
    /\ closes' = 0
    /\ closeErr' = FALSE
    /\ age' = dt
    /\ UNCHANGED <<app, page, handles, live, cache>>

CallAny ==
    \E o \in Operations : \E w \in {"current", "next", "previous"} :
      \E dt \in Elapsed \cup {0} :
        /\ (o # "view_week" => w = "current")
        /\ dt \in (IF o = "view_week" /\ cache # NoCache THEN Elapsed ELSE {0})
        /\ Call(o, w, dt)
        /\ LoopLeft /\ UNCHANGED ext

\* the executing method returns r (or raises, when r is Raised(..))
Return(r) ==
    /\ ret' = r
    /\ pc' = "ret"
    /\ UNCHANGED <<op, which, proc>>

\* the method's frame ends with the call: its locals, and what is recorded
\* of its steps, are gone (the clicks it requested stay on record)
EndOfFrame ==
    /\ state' = None
    /\ before' = 0
    /\ attempts' = 0
    /\ loaded' = FALSE
    /\ dets' = <<>>
    /\ sawToast' = FALSE
    /\ verified' = FALSE

\* a public method that saves the storage state of the open session before
\* it returns
PublicReturnSavesSnapshot ==
    /\ pc = "ret"
    /\ op # "save_and_submit_current_week"
    /\ result' = ret
    /\ op' = "idle"
    /\ pc' = "idle"
    /\ wrote' = (wrote \/ handles.ctx)
    /\ EndOfFrame
    /\ LoopLeft /\ UNCHANGED <<app, page, sess, cache, which, proc, ret, saveRes, prev, nops, ext,
                   clicks>>

\* login, view_week, save_*_week, submit_*_week: `return self._xxx()`
PublicReturn ==
    /\ pc = "ret"
    /\ op # "save_and_submit_current_week"
    /\ result' = ret
    /\ op' = "idle"
    /\ pc' = "idle"
    /\ EndOfFrame
    /\ wrote' = FALSE
    /\ LoopLeft /\ UNCHANGED <<app, page, sess, cache, which, proc, ret, saveRes, prev, nops, ext,
                   clicks>>

\* save_and_submit_current_week without `if not ok: return ok, msg`: the
\* submit step runs whatever the save step returned
SaveAndSubmitNoShortCircuit ==
    /\ pc = "ret"
    /\ op = "save_and_submit_current_week"
    /\ IF proc = "save_current" /\ ret.kind = "returned"
       THEN /\ saveRes' = ret
            /\ Enter("submit_current")
            /\ UNCHANGED <<op, result>>
       ELSE /\ saveRes' = IF proc = "save_current" THEN ret ELSE saveRes
            /\ result' = ret
            /\ op' = "idle"
            /\ pc' = "idle"
            /\ EndOfFrame
            /\ UNCHANGED <<proc, ret, wrote>>
    /\ LoopLeft /\ UNCHANGED <<app, page, sess, cache, which, prev, nops, ext, clicks>>

\* save_and_submit_current_week: ok, msg = save(); if not ok: return ok, msg;
\* return submit().  An exception of either step propagates.
SaveAndSubmitCurrentWeek ==
    /\ pc = "ret"
    /\ op = "save_and_submit_current_week"
    /\ IF proc = "save_current" /\ ret.kind = "returned" /\ ret.ok
       THEN /\ saveRes' = ret
            /\ Enter("submit_current")
            /\ UNCHANGED <<op, result>>
       ELSE /\ saveRes' = IF proc = "save_current" THEN ret ELSE saveRes
            /\ result' = ret
            /\ op' = "idle"
            /\ pc' = "idle"
            /\ EndOfFrame
            /\ UNCHANGED <<proc, ret, wrote>>
    /\ LoopLeft /\ UNCHANGED <<app, page, sess, cache, which, prev, nops, ext, clicks>>

\* what _shutdown does to the browser self._browser refers to: it is closed,
\* or goes down with its driver (browsers whose handle was overwritten stay up)
LiveAfterShutdown == IF handles.browser THEN live - 1 ELSE live

\* a teardown that can raise only when there is something to tear down
TeardownRaises == IF handles = NoHandles THEN {FALSE} ELSE BOOLEAN

\* close() is a call of its own: the page is gone with its context, and what
\* the operation before it did is history no more
AfterClose ==
    /\ shown' = 0
    /\ header' = FALSE
    /\ rendered' = FALSE
    /\ toast' = FALSE
    /\ which' = "current"
    /\ proc' = "none"
    /\ state' = None
    /\ before' = 0
    /\ attempts' = 0
    /\ ret' = NoResult
    /\ saveRes' = NoResult
    /\ loaded' = FALSE
    /\ clicks' = <<>>
    /\ dets' = <<>>
    /\ sawToast' = FALSE
    /\ verified' = FALSE
    /\ wrote' = FALSE
    /\ age' = 0
    /\ LoopLeft /\ UNCHANGED <<app, cache, op, pc, result, prev, nops, ext>>

\* _shutdown without suppress_exc: a teardown step that raises ends close()
\* before the handles are unset
CloseUnguarded ==
    /\ op = "idle"
    /\ nops < MaxOps
    /\ closes < MaxCloses
    /\ closes' = closes + 1
    /\ \E err \in TeardownRaises :
         /\ closeErr' = (closeErr \/ err)
         /\ handles' = IF err THEN handles ELSE NoHandles
         /\ live' = LiveAfterShutdown
    /\ AfterClose

\* close(): _shutdown() closes the context and the browser and stops the
\* driver, each under suppress_exc, then unsets the four handles.  The caller
\* closes the client before or between its operations, up to MaxCloses times
\* in a row.
Close ==
    /\ op = "idle"
    /\ nops < MaxOps
    /\ closes < MaxCloses
    /\ closes' = closes + 1
    /\ \E err \in TeardownRaises :
         /\ closeErr' = (closeErr \/ err)
         /\ live' = LiveAfterShutdown
    /\ handles' = NoHandles
    /\ AfterClose

\* ------------------------------------------------------ session and page load
\* _ensure_session(headless=True): nothing to do when all four handles are
\* set; otherwise start the driver, launch the browser, make the context and
\* the page.  Each of the four calls can raise; nothing catches it, and the
\* handles assigned before it stay set.
LaunchOutcomes == {"ok", "start", "launch", "context", "page"}

HandlesAfter(o) ==
    [p |-> handles.p \/ o # "start",
     browser |-> handles.browser \/ o \notin {"start", "launch"},
     ctx |-> handles.ctx \/ o \in {"page", "ok"},
     page |-> handles.page \/ o = "ok"]

\* a browser is up once chromium.launch has returned
LiveAfter(o) == IF o \in {"context", "page", "ok"} THEN live + 1 ELSE live

\* _ensure_session without its early return
EnsureSessionAlwaysLaunches ==
    /\ pc = "ensure"
    /\ \E o \in LaunchOutcomes :
         /\ handles' = HandlesAfter(o)
         /\ live' = LiveAfter(o)
         /\ IF o = "ok"
            THEN pc' = "open" /\ ret' = ret
            ELSE pc' = "ret" /\ ret' = Raised("launch")
    /\ LoopLeft /\ UNCHANGED <<app, page, closes, closeErr, age, cache, op, which, proc,
                   state, nav, saveRes, result, prev, nops, ext, hist>>

EnsureSession ==
    /\ pc = "ensure"
    /\ IF handles = AllHandles
       THEN /\ pc' = "open"
            /\ UNCHANGED <<handles, live, ret>>
       ELSE \E o \in LaunchOutcomes :
              /\ handles' = HandlesAfter(o)
              /\ live' = LiveAfter(o)
              /\ IF o = "ok"
                 THEN pc' = "open" /\ ret' = ret
                 ELSE pc' = "ret" /\ ret' = Raised("launch")
    /\ LoopLeft /\ UNCHANGED <<app, page, closes, closeErr, age, cache, op, which, proc,
                   state, nav, saveRes, result, prev, nops, ext, hist>>

\* _safe_run(lambda: self._open_timesheet(), "page load"): _open_timesheet
\* tries page.goto twice and raises the last error; _safe_run turns a
\* PlaywrightTimeoutError and any other exception into an error message.
\* A loaded page shows the current week ("This week").
SafeRunMsg(o) ==
    IF o = "timeout" THEN "The page load took too long (timed out)."
    ELSE "Unexpected error during page load"

\* _open_timesheet on a page that stays on the week it displayed
OpenTimesheetStaysOnWeek ==
    /\ pc = "open"
    /\ \E o \in {"loaded", "timeout", "error"} :
         IF o = "loaded"
         THEN /\ shown' = shown
              /\ header' \in (IF loginPage THEN {FALSE} ELSE BOOLEAN)
              /\ rendered' \in (IF loginPage THEN {FALSE} ELSE BOOLEAN)
              /\ toast' = FALSE
              /\ loaded' = TRUE
              /\ pc' = "login"
              /\ UNCHANGED <<op, which, proc, ret>>
         ELSE /\ Return(Ret(FALSE, SafeRunMsg(o), FALSE))
              /\ UNCHANGED <<page, loaded>>
    /\ LoopLeft /\ UNCHANGED <<app, sess, cache, state, nav, saveRes, result, prev, nops, ext,
                   clicks, dets, sawToast, verified, wrote>>

OpenTimesheet ==
    /\ pc = "open"
    /\ \E o \in {"loaded", "timeout", "error"} :
         IF o = "loaded"
         THEN /\ shown' = 0
              /\ header' \in (IF loginPage THEN {FALSE} ELSE BOOLEAN)
              /\ rendered' \in (IF loginPage THEN {FALSE} ELSE BOOLEAN)
              /\ toast' = FALSE
              /\ loaded' = TRUE
              /\ pc' = "login"
              /\ UNCHANGED <<op, which, proc, ret>>
         ELSE /\ Return(Ret(FALSE, SafeRunMsg(o), FALSE))
              /\ UNCHANGED <<page, loaded>>
    /\ LoopLeft /\ UNCHANGED <<app, sess, cache, state, nav, saveRes, result, prev, nops, ext,
                   clicks, dets, sawToast, verified, wrote>>

\* _on_login_page: the page shows the sign-in form
OnLoginPage == loginPage

\* where a method continues once the page is known not to be the sign-in page
AfterLogin(p) ==
    CASE p = "view" -> IF which = "next" THEN "nav" ELSE "settle"
      [] p \in {"save_next", "submit_next"} -> "nav"
      [] OTHER -> "detect"

\* if self._on_login_page(): screenshot; return False, "Napta login required..."
\* The screenshot call is not guarded.
LoginCheck ==
    /\ pc = "login"
    /\ IF OnLoginPage
       THEN \E shotOk \in BOOLEAN :
              Return(IF shotOk
                     THEN Ret(FALSE, "Napta login required. Please open https://app.napta.io once in Chrome.", TRUE)
                     ELSE Raised("screenshot"))
       ELSE /\ pc' = AfterLogin(proc)
            /\ UNCHANGED <<op, which, proc, ret>>
    /\ LoopLeft /\ UNCHANGED <<app, page, sess, cache, state, nav, saveRes, result, prev,
                   nops, ext, hist>>


\* ---------------------------------------------------------------- _login_sync
LoginFrame == LoopLeft /\ UNCHANGED <<app, page, handles, closes, closeErr, age, cache, op, which,
                          proc, state, nav, saveRes, result, prev, nops, ext, loaded,
                          clicks, dets, sawToast, verified>>

\* what asyncio.get_running_loop() finds in the process that runs the client:
\* a caller of the client may or may not run a loop; under _run_napta_action
\* it is the caller's loop when the action runs inline, and none in a child
LoopRunning ==
    IF cli.at = "direct" THEN BOOLEAN ELSE {cli.at = "inline" /\ cli.loop}

\* asyncio.get_running_loop(): without a running loop the login runs in this
\* process, with one in a helper subprocess
LoginMode ==
    /\ pc = "login_mode"
    /\ \E loopRunning \in LoopRunning :
         pc' = IF loopRunning THEN "login_helper" ELSE "login_launch"
    /\ UNCHANGED <<live, wrote, ret>>
    /\ LoginFrame

\* with sync_playwright() as p: launch a headed browser, a context and a page
\* of its own (self._browser is not looked at), then page.goto (guarded).
\* A call that raises leaves the `with` block, which stops the driver.
LoginLaunch ==
    /\ pc = "login_launch"
    /\ \E o \in LaunchOutcomes :
         IF o = "ok"
         THEN /\ live' = live + 1
              /\ pc' = "login_poll"
              /\ ret' = ret
         ELSE /\ live' = live
              /\ pc' = "ret"
              /\ ret' = Raised("launch")
    /\ UNCHANGED wrote
    /\ LoginFrame

\* what the polling of _captured(ctx, page) ends with, and whether the last
\* ctx.storage_state(path=STATE_PATH) it made succeeded.  A control is seen:
\* the write is inside suppress_exc together with `return True`, so only a
\* write that succeeds ends the polling there.  A status chip is seen: the
\* write is inside suppress_exc, `return True` is not.  Neither within 180
\* seconds: timeout, nothing written.
Captures == {[by |-> "control", wrote |-> TRUE],
             [by |-> "chip", wrote |-> TRUE],
             [by |-> "chip", wrote |-> FALSE],
             [by |-> "timeout", wrote |-> FALSE]}

LoginCapturedMsg == "Login captured. You can now run: view / save / submit."

\* `while time.time() - start < 180` in _login_sync: seconds the window is
\* polled for
LoginWindowS == 180
\* `timeout_sec: int = 180` of _run_napta_action: seconds the parent waits for
\* its child
TimeoutSec == 180

\* The poll can run until its time is over.  In a child of _run_napta_action
\* the parent's subprocess.run(timeout=timeout_sec) is counting since before
\* the child started, and the poll's `start` is taken after the child has
\* launched the browser and loaded the page: the poll's time is over only
\* after the parent's, unless it is the shorter one; the parent kills the
\* child when its own time is over.
PollCanTimeOut == cli.at # "child" \/ LoginWindowS < TimeoutSec

\* while time.time() - start < 180: if _captured(ctx, page): return True, ...
\* with finally: ctx.close(), browser.close(), and the driver stops; when
\* the 180 seconds are over the loop is left
LoginPoll ==
    /\ pc = "login_poll"
    /\ \E c \in Captures :
         /\ c.by = "timeout" => PollCanTimeOut
         /\ wrote' = c.wrote
         /\ IF c.by = "timeout"
            THEN /\ pc' = "login_timeout"
                 /\ UNCHANGED <<ret, live>>
            ELSE /\ pc' = "ret"
                 /\ ret' = Ret(TRUE, LoginCapturedMsg, FALSE)
                 /\ live' = live - 1
    /\ LoginFrame

\* the timeout path without the `finally` that closes context and browser
LoginTimedOutLeavesBrowser ==
    /\ pc = "login_timeout"
    /\ ret' = Ret(FALSE, "Login window timed out.", TRUE)
    /\ pc' = "ret"
    /\ UNCHANGED <<live, wrote>>
    /\ LoginFrame

\* timed out: page.screenshot under suppress_exc, then
\* return False, f"Login window timed out. Screenshot -> {name}";
\* finally: ctx.close(), browser.close(), and the driver stops
LoginTimedOut ==
    /\ pc = "login_timeout"
    /\ ret' = Ret(FALSE, "Login window timed out.", TRUE)
    /\ live' = live - 1
    /\ pc' = "ret"
    /\ UNCHANGED wrote
    /\ LoginFrame

\* what the helper subprocess ends with: it prints OK after a storage_state
\* write that did not raise, TIMEOUT when its 180 seconds are over, and fails
\* (no output, returncode not 0) when one of its calls raises
HelperOutputs == {"OK", "TIMEOUT", "failed"}

HelperPc(o) ==
    CASE o = "OK" -> "helper_ok"
      [] o = "TIMEOUT" -> "helper_timeout"
      [] OTHER -> "helper_failed"

\* proc = subprocess.run([sys.executable, "-c", helper], capture_output=True):
\* the helper launches a browser of its own, polls, and closes it
LoginHelper ==
    /\ pc = "login_helper"
    /\ \E o \in HelperOutputs :
         /\ pc' = HelperPc(o)
         /\ wrote' = (o = "OK")
    /\ UNCHANGED <<live, ret>>
    /\ LoginFrame

\* if proc.returncode == 0 and "OK" in proc.stdout and STATE_PATH.exists():
\* return True, "Login captured. ..."; otherwise one message for a timeout and
\* for a failure, and no screenshot
LoginHelperRead ==
    /\ pc \in {"helper_ok", "helper_timeout", "helper_failed"}
    /\ ret' = IF pc = "helper_ok"
              THEN Ret(TRUE, LoginCapturedMsg, FALSE)
              ELSE Ret(FALSE, "Login window timed out or failed in helper. Please try again.", FALSE)
    /\ pc' = "ret"
    /\ UNCHANGED <<live, wrote>>
    /\ LoginFrame

\* ------------------------------------------------------------ week navigation
\* (_get_week_title(page) or "") or _period_fingerprint(page): empty (0) while
\* the header has not rendered, otherwise a string that identifies the
\* displayed week
Marker(h) == IF h THEN shown + 1 ELSE 0

\* one navigation trigger; when it takes effect the page moves one week on
\* and renders again
Trigger(adv) ==
    IF adv /\ shown < MaxWeek
    THEN /\ shown' = shown + 1
         /\ header' \in BOOLEAN
         /\ rendered' \in BOOLEAN
         /\ toast' = FALSE
    ELSE UNCHANGED page

NavFrame == LoopLeft /\ UNCHANGED <<app, sess, cache, op, which, proc, state, ret, saveRes,
                        result, prev, nops, ext, hist>>

\* _go_to_next_week: before = title or fingerprint; attempts = 0
GoToNextWeekBefore ==
    /\ pc = "nav"
    /\ \E h \in HeaderRenders :
         /\ header' = h
         /\ before' = Marker(h)
    /\ attempts' = 0
    /\ pc' = "nav_cy"
    /\ UNCHANGED <<shown, rendered, toast>>
    /\ NavFrame

\* while attempts < 3: attempts += 1; click the data-cy "navRight" control
GoToNextWeekClickCy ==
    /\ pc = "nav_cy"
    /\ attempts < NavAttempts
    /\ attempts' = attempts + 1
    /\ \E adv \in BOOLEAN : Trigger(adv)
    /\ pc' = "nav_role"
    /\ UNCHANGED before
    /\ NavFrame

\* then click the button named "Next" or ">"
GoToNextWeekClickRole ==
    /\ pc = "nav_role"
    /\ \E adv \in BOOLEAN : Trigger(adv)
    /\ pc' = "nav_key"
    /\ UNCHANGED nav
    /\ NavFrame

\* then press ArrowRight
GoToNextWeekPressKey ==
    /\ pc = "nav_key"
    /\ \E adv \in BOOLEAN : Trigger(adv)
    /\ pc' = "nav_poll"
    /\ UNCHANGED nav
    /\ NavFrame

\* for _ in range(30): after = title or fingerprint;
\*     if after and after != before: return True
\* after the third fruitless cycle: return False
GoToNextWeekPoll ==
    /\ pc = "nav_poll"
    /\ \E h \in HeaderRenders :
         /\ header' = h
         /\ pc' = IF Marker(h) # 0 /\ Marker(h) # before
                  THEN (IF proc = "view" THEN "settle" ELSE "detect")
                  ELSE (IF attempts < NavAttempts THEN "nav_cy" ELSE "nav_failed")
    /\ UNCHANGED <<shown, rendered, toast, nav>>
    /\ NavFrame

NavFailedMsg(p) ==
    IF p = "view" THEN "Navigation didn't land on next week."
    ELSE "Could not navigate to next week."

\* if not self._go_to_next_week(): screenshot (not guarded); return False, ...
NavFailed ==
    /\ pc = "nav_failed"
    /\ \E shotOk \in BOOLEAN :
         Return(IF shotOk THEN Ret(FALSE, NavFailedMsg(proc), TRUE)
                ELSE Raised("screenshot"))
    /\ LoopLeft /\ UNCHANGED <<app, page, sess, cache, state, nav, saveRes, result, prev,
                   nops, ext, hist>>

\* ------------------------------------------------------------ state detection
\* _wait_for_save_submit_chip: polls for the Create, the Save, then the Submit
\* control; returns None at once when the status chip says approval pending
\* or submitted, and None when the timeout passes with none of them seen.
WaitForSaveSubmitChip(vis, chip) ==
    IF "create" \in vis THEN "create"
    ELSE IF "save" \in vis THEN "save"
    ELSE IF "submit" \in vis THEN "submit"
    ELSE None

States == {"create", "save", "submit", None}

\* state = _wait_for_save_submit_chip(page, SHORT_TIMEOUT_MS)
Detect(s) ==
    \E r \in Renders :
      /\ rendered' = r
      /\ FirstRead(shown)
      /\ LET vis == VisibleOf(week'[shown], r)
             chip == ChipOf(week'[shown], r)
         IN /\ s = WaitForSaveSubmitChip(vis, chip)
            /\ dets' = Append(dets, [vis |-> vis, chip |-> chip])
      /\ state' = s
      /\ UNCHANGED <<shown, header, toast>>

\* -------------------------------------------------------------------- clicks
\* what the application does with a click that was performed
ClickTarget(c) ==
    CASE c = "create" -> {"Draft", "SubmitReady"}
      [] c = "save" -> {"SubmitReady"}
      [] OTHER -> {"ApprovalPending"}

\* _click_create / _click_save / _click_submit returning `performed`.
\* True needs the control to be there and the click to go through; the
\* application then acts on it or ignores it.  False: the control is not
\* there, or every click attempt timed out.
ClickOn(c, performed) ==
    /\ clicks' = Append(clicks, [c |-> c, ok |-> performed])
    /\ \E r \in Renders :
         IF performed
         THEN /\ c \in Visible(r)
              /\ \/ /\ rendered' = r
                    /\ UNCHANGED <<week, shown, header, toast>>
                 \/ /\ \E t \in ClickTarget(c) : week' = [week EXCEPT ![shown] = t]
                    /\ rendered' \in BOOLEAN
                    /\ toast' = (c = "save")
                    /\ UNCHANGED <<shown, header>>
         ELSE /\ rendered' = r
              /\ UNCHANGED <<week, shown, header, toast>>

\* a failed click followed by an unguarded screenshot and `return False, msg`
ShotAndReturn(msg) ==
    \E shotOk \in BOOLEAN :
      Return(IF shotOk THEN Ret(FALSE, msg, TRUE) ELSE Raised("screenshot"))

\* _wait_until_submitted: True as soon as the Submit control is not there or
\* the chip says approval pending / submitted; False when the Submit control
\* stays for the whole timeout
WaitUntilSubmitted(vis, chip) ==
    \/ "submit" \notin vis
    \/ chip \in {"approval pending", "submitted"}


\* ------------------------------------------------- frames of the method steps
Fixed == LoopLeft /\ UNCHANGED <<loginPage, sess, nav, saveRes, result, prev, nops, ext>>
Go(l) == pc' = l /\ UNCHANGED <<op, which, proc, ret>>
DetectFrame == Fixed /\ UNCHANGED <<cache, loaded, clicks, sawToast, verified, wrote>>
ClickFrame == Fixed /\ UNCHANGED <<cache, state, loaded, dets, sawToast, verified, wrote>>

\* ------------------------------------- _save_current_week_fast / _save_next_week_fast
SaveProcs == {"save_current", "save_next"}

\* _save_current_week_fast with None handled as after Create: return False
SaveCurrentDetectNoneFails ==
    /\ pc = "detect"
    /\ proc = "save_current"
    /\ \E s \in States :
         /\ Detect(s)
         /\ IF s = None
            THEN Return(Ret(FALSE, "No Save/Submit visible.", FALSE))
            ELSE Go(IF s = "create" THEN "create" ELSE "save")
    /\ DetectFrame

\* _save_current_week_fast: state = detect; if state is None: return True, ...
SaveCurrentDetect ==
    /\ pc = "detect"
    /\ proc = "save_current"
    /\ \E s \in States :
         /\ Detect(s)
         /\ IF s = None
            THEN Return(Ret(TRUE, "Timesheet already submitted for this week.", FALSE))
            ELSE Go(IF s = "create" THEN "create" ELSE "save")
    /\ DetectFrame

\* _save_next_week_fast: state = detect after the navigation
SaveNextDetect ==
    /\ pc = "detect"
    /\ proc = "save_next"
    /\ \E s \in States :
         /\ Detect(s)
         /\ Go(IF s = None THEN "none_next" ELSE IF s = "create" THEN "create" ELSE "save")
    /\ DetectFrame

\* _save_next_week_fast, state is None: _has_submit_button, then the chip
SaveNextNone ==
    /\ pc = "none_next"
    /\ \E r1 \in Renders :
         \E r2 \in (IF r1 THEN {TRUE} ELSE BOOLEAN) :
           /\ rendered' = r2
           /\ Return(IF "submit" \in Visible(r1)
                     THEN Ret(TRUE, "Next week saved. Do you want to 'Submit for approval'? Type sbnw", FALSE)
                     ELSE IF StatusChipText(r2) \in {"approval pending", "submitted"}
                     THEN Ret(TRUE, "Next week already submitted.", FALSE)
                     ELSE Ret(TRUE, "Next week already saved. 'Submit for approval' may be visible.", FALSE))
    /\ UNCHANGED <<shown, header, toast, state, hist>>
    /\ Fixed
    /\ UNCHANGED <<week, cache>>

\* if state == "create": click Create, on failure screenshot and return False
SaveCreate ==
    /\ pc = "create"
    /\ proc \in SaveProcs
    /\ \/ ClickOn("create", TRUE) /\ Go("redetect")
       \/ ClickOn("create", FALSE) /\ ShotAndReturn("Could not click 'Create timesheet'.")
    /\ ClickFrame

\* after Create no second detection: the state is taken to be "save"
SaveRedetectAssumed ==
    /\ pc = "redetect"
    /\ proc \in SaveProcs
    /\ state' = "save"
    /\ Go("save")
    /\ UNCHANGED <<week, page, dets>>
    /\ DetectFrame

\* state = detect again; if state is None: return False, "After 'Create' ..."
SaveRedetect ==
    /\ pc = "redetect"
    /\ proc \in SaveProcs
    /\ \E s \in States :
         /\ Detect(s)
         /\ IF s = None
            THEN Return(Ret(FALSE, "After 'Create', no Save/Submit visible.", FALSE))
            ELSE Go("save")
    /\ DetectFrame

AlreadySavedMsg(p) ==
    IF p = "save_current"
    THEN "Timesheet already saved. 'Submit for approval' is visible."
    ELSE "Next week already saved. 'Submit for approval' is visible."

SavedMsg(p) ==
    IF p = "save_current" THEN "Saved (draft)." ELSE "Next week saved (draft)."

\* if state == "submit": return True, "already saved";
\* if not _click_save(page): screenshot; return False, "Could not click 'Save'"
SaveClick ==
    /\ pc = "save"
    /\ proc \in SaveProcs
    /\ IF state = "submit"
       THEN /\ Return(Ret(TRUE, AlreadySavedMsg(proc), FALSE))
            /\ UNCHANGED <<week, page, clicks>>
       ELSE \/ ClickOn("save", TRUE) /\ Go("toast")
            \/ ClickOn("save", FALSE) /\ ShotAndReturn("Could not click 'Save'.")
    /\ ClickFrame

\* _saw_saved_toast(page) (its result is dropped); unlink the view cache;
\* return True, "Saved (draft)."
SaveToast ==
    /\ pc = "toast"
    /\ proc \in SaveProcs
    /\ sawToast' = toast
    /\ cache' = NoCache
    /\ Return(Ret(TRUE, SavedMsg(proc), FALSE))
    /\ UNCHANGED <<week, page, state, loaded, clicks, dets, verified, wrote>>
    /\ Fixed


\* --------------------------------- _submit_current_week_fast / _submit_next_week_fast
SubmitProcs == {"submit_current", "submit_next"}

AlreadySubmittedMsg(p) ==
    IF p = "submit_current" THEN "Timesheet already submitted."
    ELSE "Next week already submitted."

SubmittedMsg(p) ==
    IF p = "submit_current" THEN "Submitted for approval."
    ELSE "Next week submitted for approval."

\* submit without `if state is None: return True, ...`: None falls through
SubmitDetectNoneFallsThrough ==
    /\ pc = "detect"
    /\ proc \in SubmitProcs
    /\ \E s \in States :
         /\ Detect(s)
         /\ Go(IF s = "create"
                THEN (IF proc = "submit_current" THEN "create" ELSE "next_create")
                ELSE "presave")
    /\ DetectFrame

\* state = detect; if state is None: return True, "already submitted"
SubmitDetect ==
    /\ pc = "detect"
    /\ proc \in SubmitProcs
    /\ \E s \in States :
         /\ Detect(s)
         /\ IF s = None
            THEN Return(Ret(TRUE, AlreadySubmittedMsg(proc), FALSE))
            ELSE Go(IF s = "create"
                    THEN (IF proc = "submit_current" THEN "create" ELSE "next_create")
                    ELSE "presave")
    /\ DetectFrame

\* _submit_current_week_fast, state == "create": click Create (on failure
\* screenshot and return False)
SubmitCurrentCreate ==
    /\ pc = "create"
    /\ proc = "submit_current"
    /\ \/ ClickOn("create", TRUE) /\ Go("redetect")
       \/ ClickOn("create", FALSE) /\ ShotAndReturn("Could not click 'Create timesheet'.")
    /\ ClickFrame

\* ... then state = detect again (None is not tested here)
SubmitCurrentRedetect ==
    /\ pc = "redetect"
    /\ proc = "submit_current"
    /\ \E s \in States : Detect(s)
    /\ Go("presave")
    /\ DetectFrame

\* if state == "save": if not _click_save(page): return False, "... before submit."
SubmitSave ==
    /\ pc = "presave"
    /\ proc \in SubmitProcs
    /\ IF state = "save"
       THEN \/ ClickOn("save", TRUE) /\ Go("toast")
            \/ /\ ClickOn("save", FALSE)
               /\ Return(Ret(FALSE, "Could not click 'Save' before submit.", FALSE))
       ELSE /\ Go("submit")
            /\ UNCHANGED <<week, page, clicks>>
    /\ ClickFrame

\* _saw_saved_toast(page); state = "submit"
SubmitToast ==
    /\ pc = "toast"
    /\ proc \in SubmitProcs
    /\ sawToast' = toast
    /\ state' = "submit"
    /\ Go("submit")
    /\ UNCHANGED <<week, page, cache, loaded, clicks, dets, verified, wrote>>
    /\ Fixed

\* if state == "submit": if not _click_submit(page): return False, ...
\* otherwise fall through: submit_current returns "Unknown state while
\* submitting."; submit_next goes on to its `if state == "create"`, which is
\* false here, and returns the same
SubmitClick ==
    /\ pc = "submit"
    /\ proc \in SubmitProcs
    /\ IF state = "submit"
       THEN \/ ClickOn("submit", TRUE) /\ Go("verify")
            \/ /\ ClickOn("submit", FALSE)
               /\ Return(Ret(FALSE, "Could not click 'Submit for approval'.", FALSE))
       ELSE /\ Return(Ret(FALSE, "Unknown state while submitting.", FALSE))
            /\ UNCHANGED <<week, page, clicks>>
    /\ ClickFrame

\* if not _wait_until_submitted(page): guarded screenshot; return False, ...
\* unlink the view cache; return True, "Submitted for approval."
SubmitVerify ==
    /\ pc = "verify"
    /\ proc \in SubmitProcs
    /\ \E r \in Renders :
         /\ rendered' = r
         /\ IF WaitUntilSubmitted(Visible(r), StatusChipText(r))
            THEN /\ verified' = TRUE
                 /\ cache' = NoCache
                 /\ Return(Ret(TRUE, SubmittedMsg(proc), FALSE))
            ELSE /\ Return(Ret(FALSE, "Submit click didn't finalize.", TRUE))
                 /\ UNCHANGED <<verified, cache>>
    /\ UNCHANGED <<week, shown, header, toast, state, loaded, clicks, dets, sawToast,
                   wrote>>
    /\ Fixed

\* _submit_next_week_fast, `if state == "create"` (tested after the save and
\* submit branches): click Create, on failure screenshot and return False
SubmitNextCreate ==
    /\ pc = "next_create"
    /\ proc = "submit_next"
    /\ \/ ClickOn("create", TRUE) /\ Go("next_redetect")
       \/ ClickOn("create", FALSE) /\ ShotAndReturn("Could not click 'Create timesheet'.")
    /\ ClickFrame

\* state = detect again
SubmitNextRedetect ==
    /\ pc = "next_redetect"
    /\ proc = "submit_next"
    /\ \E s \in States : Detect(s)
    /\ Go("next_save")
    /\ DetectFrame

\* if state == "save": if not _click_save(page): return False, "... after creating."
SubmitNextCreatedSave ==
    /\ pc = "next_save"
    /\ proc = "submit_next"
    /\ IF state = "save"
       THEN \/ ClickOn("save", TRUE) /\ Go("next_toast")
            \/ /\ ClickOn("save", FALSE)
               /\ Return(Ret(FALSE, "Could not click 'Save' after creating.", FALSE))
       ELSE /\ Go("next_submit")
            /\ UNCHANGED <<week, page, clicks>>
    /\ ClickFrame

\* _saw_saved_toast(page); state = "submit"
SubmitNextCreatedToast ==
    /\ pc = "next_toast"
    /\ proc = "submit_next"
    /\ sawToast' = toast
    /\ state' = "submit"
    /\ Go("next_submit")
    /\ UNCHANGED <<week, page, cache, loaded, clicks, dets, verified, wrote>>
    /\ Fixed

\* if state == "submit": if not _click_submit(page): return False, ...;
\* unlink the view cache; return True, "Next week submitted for approval."
\* otherwise: return False, "Unknown state while submitting."
SubmitNextCreatedSubmit ==
    /\ pc = "next_submit"
    /\ proc = "submit_next"
    /\ IF state = "submit"
       THEN \/ /\ ClickOn("submit", TRUE)
               /\ cache' = NoCache
               /\ Return(Ret(TRUE, SubmittedMsg(proc), FALSE))
            \/ /\ ClickOn("submit", FALSE)
               /\ Return(Ret(FALSE, "Could not click 'Submit for approval'.", FALSE))
               /\ UNCHANGED cache
       ELSE /\ Return(Ret(FALSE, "Unknown state while submitting.", FALSE))
            /\ UNCHANGED <<week, page, clicks, cache>>
    /\ Fixed
    /\ UNCHANGED <<state, loaded, dets, sawToast, verified, wrote>>

\* ------------------------------------------------------------ _view_week_fast
\* _view_cache_get with `<= 10` in place of `< 10`
FreshOrEqual(w) == cache.which = w /\ age <= CacheTtl

\* _view_cache_get: fresh = (time.time() - d["ts"]) < 10 and d.get("which") == which
Fresh(w) == cache.which = w /\ age < CacheTtl

\* cached = self._view_cache_get(which); if cached: return True, cached.
\* No entry, an unreadable one, a stale one, one for another `which`: None.
ViewCacheGet ==
    /\ pc = "cache"
    /\ IF Fresh(which) /\ cache.text # ""
       THEN /\ Return(Ret(TRUE, cache.text, FALSE))
            /\ UNCHANGED age
       ELSE /\ Go("ensure")
            /\ age' = 0
    /\ LoopLeft /\ UNCHANGED <<app, page, handles, live, closes, closeErr, cache, state, nav,
                   saveRes, result, prev, nops, ext, hist>>

\* self._page.wait_for_load_state("domcontentloaded", timeout=5_000), not guarded
ViewSettle ==
    /\ pc = "settle"
    /\ \/ Go("scrape")
       \/ Return(Raised("load state"))
    /\ UNCHANGED <<week, page, cache, state, hist>>
    /\ Fixed

\* the rest of _view_week_fast: wait for the controls, read chip and title,
\* find the table and its headers, read the rows, format, cache, return True
ViewTexts == {"Could not locate the timesheet table.", "(Headers not found)", "grid"}

ViewCachePut(w, t) == [which |-> w, text |-> t]

ViewScrape ==
    /\ pc = "scrape"
    /\ \/ /\ \E r \in Renders : rendered' = r
          /\ \E h \in HeaderRenders : header' = h
          /\ UNCHANGED shown
       \/ \* the table was not found at first: page.goto(DEFAULT_APP_URL) again
          /\ shown' = 0
          /\ rendered' \in BOOLEAN
          /\ header' \in BOOLEAN
    /\ \/ \E t \in ViewTexts :
            /\ cache' = ViewCachePut(which, t)
            /\ Return(Ret(TRUE, t, FALSE))
       \/ /\ Return(Raised("locator"))
          /\ UNCHANGED cache
    /\ UNCHANGED <<week, toast, state, hist>>
    /\ Fixed

\* ---------------------------------------------------------------------- Next
Next ==
    \/ CallAny
    \/ LoginMode
    \/ LoginLaunch
    \/ LoginPoll
    \/ LoginTimedOut
    \/ LoginHelper
    \/ LoginHelperRead
    \/ PublicReturn
    \/ SaveAndSubmitCurrentWeek
    \/ Close
    \/ EnsureSession
    \/ OpenTimesheet
    \/ LoginCheck
    \/ GoToNextWeekBefore
    \/ GoToNextWeekClickCy
    \/ GoToNextWeekClickRole
    \/ GoToNextWeekPressKey
    \/ GoToNextWeekPoll
    \/ NavFailed
    \/ SaveCurrentDetect
    \/ SaveNextDetect
    \/ SaveNextNone
    \/ SaveCreate
    \/ SaveRedetect
    \/ SaveClick
    \/ SaveToast
    \/ SubmitDetect
    \/ SubmitCurrentCreate
    \/ SubmitCurrentRedetect
    \/ SubmitSave
    \/ SubmitToast
    \/ SubmitClick
    \/ SubmitVerify
    \/ SubmitNextCreate
    \/ SubmitNextRedetect
    \/ SubmitNextCreatedSave
    \/ SubmitNextCreatedToast
    \/ SubmitNextCreatedSubmit
    \/ ViewCacheGet
    \/ ViewSettle
    \/ ViewScrape

Spec == Init /\ [][Next]_vars

TypeOK ==
    /\ week \in [Weeks -> Status \cup {Unseen}]
    /\ (Len(dets) > 0 => week[shown] \in Status)
    /\ shown \in Weeks
    /\ state \in States
    /\ attempts \in 0..NavAttempts
    /\ nops \in 0..MaxOps
    /\ result.kind \in {"none", "returned", "raised"}

\* ================================================================ wait loops
\* The steps above take a wait loop as one step: its last iteration, which
\* finds what it waits for or finds the time over.  Here the iterations before
\* the last are steps too, so that a loop that does not end is a behaviour.

\* operations started in one behaviour in which the loops are unrolled
MaxLiveOps == 1
\* the fruitless iterations a loop with a timeout has time for: every
\* iteration ends with a sleep (0.15 s of 4 s in _wait_for_save_submit_chip,
\* 0.2 s in _wait_until_submitted, 0.5 s of 180 s in the login poll)
MaxPolls == 2
\* `for _ in range(30)` in _go_to_next_week
NavPolls == 30

\* where a method is inside a wait loop: _wait_for_save_submit_chip,
\* _wait_until_submitted, the login poll, the poll of _go_to_next_week
WaitPcs == {"detect", "redetect", "next_redetect", "verify", "login_poll",
            "nav_poll"}

\* the iterations the loop at l can make
WaitLimit(l) == IF l = "nav_poll" THEN NavPolls ELSE MaxPolls

PollFrame == UNCHANGED <<week, loginPage, shown, header, rendered, toast, handles,
                         live, closes, closeErr, age, cache, op, which, proc, pc,
                         state, before, attempts, ret, saveRes, result, prev, nops,
                         loaded, clicks, dets, sawToast, verified, wrote, cli, out,
                         fcall, fret>>

\* an iteration that starts the count over when the limit is reached
PollAgainForever ==
    /\ op # "idle"
    /\ pc \in WaitPcs
    /\ polls' = (polls + 1) % WaitLimit(pc)
    /\ PollFrame

\* an iteration of the loop that finds nothing, and its sleep: there is one
\* only while the time (or the range) is not used up
PollAgain ==
    /\ op # "idle"
    /\ pc \in WaitPcs
    /\ polls + 1 < WaitLimit(pc)
    /\ polls' = polls + 1
    /\ PollFrame

\* the caller invokes a public operation
LiveCall ==
    /\ nops < MaxLiveOps
    /\ CallAny

\* the steps of the methods
Step ==
    \/ LoginMode
    \/ LoginLaunch
    \/ LoginPoll
    \/ LoginTimedOut
    \/ LoginHelper
    \/ LoginHelperRead
    \/ PublicReturn
    \/ SaveAndSubmitCurrentWeek
    \/ EnsureSession
    \/ OpenTimesheet
    \/ LoginCheck
    \/ GoToNextWeekBefore
    \/ GoToNextWeekClickCy
    \/ GoToNextWeekClickRole
    \/ GoToNextWeekPressKey
    \/ GoToNextWeekPoll
    \/ NavFailed
    \/ SaveCurrentDetect
    \/ SaveNextDetect
    \/ SaveNextNone
    \/ SaveCreate
    \/ SaveRedetect
    \/ SaveClick
    \/ SaveToast
    \/ SubmitDetect
    \/ SubmitCurrentCreate
    \/ SubmitCurrentRedetect
    \/ SubmitSave
    \/ SubmitToast
    \/ SubmitClick
    \/ SubmitVerify
    \/ SubmitNextCreate
    \/ SubmitNextRedetect
    \/ SubmitNextCreatedSave
    \/ SubmitNextCreatedToast
    \/ SubmitNextCreatedSubmit
    \/ ViewCacheGet
    \/ ViewSettle
    \/ ViewScrape

LiveNext ==
    \/ LiveCall
    \/ Close
    \/ PollAgain
    \/ Step

\* the thread that runs an operation keeps running: every browser call and
\* every sleep returns
LiveSpec == Init /\ [][LiveNext]_vars /\ WF_vars(PollAgain \/ Step)

\* ========================================================= _run_napta_action
\* The command line runs each Napta action through _run_napta_action (cli.py):
\* a new client per action, closed when the action is over.  cli.frozen is
\* sys.frozen (a PyInstaller build), cli.loop whether the caller runs an
\* asyncio event loop, cli.at where the action is: at the prompt, running
\* inline in the caller's process, running in a child process, or out of
\* the tool; cli.sigint records a keyboard interrupt the action got.

CliFrame == UNCHANGED <<week, loginPage, cache, prev, nops, fcall, fret>>

\* the client object is gone, with its page and everything it remembered
ClientGone ==
    /\ op' = "idle"
    /\ pc' = "idle"
    /\ shown' = 0
    /\ header' = FALSE
    /\ rendered' = FALSE
    /\ toast' = FALSE
    /\ handles' = NoHandles
    /\ closes' = 0
    /\ closeErr' = FALSE
    /\ age' = 0
    /\ which' = "current"
    /\ proc' = "none"
    /\ state' = None
    /\ before' = 0
    /\ attempts' = 0
    /\ ret' = NoResult
    /\ saveRes' = NoResult
    /\ result' = NoResult
    /\ loaded' = FALSE
    /\ clicks' = <<>>
    /\ dets' = <<>>
    /\ sawToast' = FALSE
    /\ verified' = FALSE
    /\ wrote' = FALSE
    /\ polls' = 0

\* if getattr(sys, "frozen", False): c = NaptaClient(); ok, msg = c.<action>()
\* in this process; otherwise subprocess.run of a helper that does the same
RunNaptaAction ==
    /\ cli.at = "prompt"
    /\ \E o \in Operations : \E w \in {"current", "next", "previous"} :
         \E dt \in Elapsed \cup {0} :
           /\ (o # "view_week" => w = "current")
           /\ dt \in (IF o = "view_week" /\ cache # NoCache THEN Elapsed ELSE {0})
           /\ Call(o, w, dt)
    /\ cli' = [cli EXCEPT !.at = IF cli.frozen THEN "inline" ELSE "child",
                          !.sigint = "none"]
    /\ out' = NoResult
    /\ polls' = 0
    /\ UNCHANGED <<fcall, fret>>

CancelledMsg == "Cancelled."

\* what the action's exception handlers make of the operation's result:
\* except (KeyboardInterrupt, EOFError): ok, msg = False, "Cancelled.";
\* except Exception as e: ok, msg = False, f"Unexpected Napta error: {e}"
Handled(r) ==
    IF r.kind = "returned" THEN r
    ELSE IF r.msg = "KeyboardInterrupt" THEN Ret(FALSE, CancelledMsg, FALSE)
    ELSE Ret(FALSE, "Unexpected Napta error", FALSE)

\* how the helper process ends: it prints its result as JSON, or it fails
\* before it can (returncode not 0)
HelperExits == {"printed", "failed"}

\* the operation is over: finally: c.close() (guarded), and the result is
\* returned; from a child it is printed as JSON and parsed by the parent, and
\* a child that failed gives (False, stdout or stderr or "Napta helper failed")
ActionReturn ==
    /\ cli.at \in {"inline", "child"}
    /\ op = "idle"
    /\ result.kind # "none"
    /\ \E e \in (IF cli.at = "child" THEN HelperExits ELSE {"printed"}) :
         out' = IF e = "printed" THEN Handled(result)
                ELSE Ret(FALSE, "Napta helper failed", FALSE)
    /\ live' = LiveAfterShutdown
    /\ cli' = [cli EXCEPT !.at = "prompt"]
    /\ ClientGone
    /\ CliFrame

\* where a method waits inside `with suppress_exc():`, whose __exit__ returns
\* True for every exception: the three triggers of _go_to_next_week
SuppressedPcs == {"nav_cy", "nav_role", "nav_key"}

\* Ctrl-C while the operation is blocked in a call, in the process that runs
\* the client: KeyboardInterrupt is raised there.  It leaves the operation
\* (the login's `finally` closes its browser on the way), unless the call is
\* inside suppress_exc: then it is swallowed, the call counts as failed and
\* the method goes on.
ClientInterrupt ==
    /\ cli.at \in {"inline", "child"}
    /\ cli.sigint = "none"
    /\ op # "idle"
    /\ pc # "ret"
    /\ cli' = [cli EXCEPT !.sigint = "action"]
    /\ \/ /\ pc \notin SuppressedPcs
          /\ pc' = "ret"
          /\ ret' = Raised("KeyboardInterrupt")
          /\ live' = IF pc \in {"login_poll", "login_timeout"} THEN live - 1 ELSE live
          /\ UNCHANGED attempts
       \/ /\ pc \in SuppressedPcs
          /\ pc' = CASE pc = "nav_cy" -> "nav_role"
                     [] pc = "nav_role" -> "nav_key"
                     [] OTHER -> "nav_poll"
          /\ attempts' = IF pc = "nav_cy" THEN attempts + 1 ELSE attempts
          /\ UNCHANGED <<ret, live>>
    /\ polls' = 0
    /\ UNCHANGED <<app, page, handles, closes, closeErr, age, cache, op, which, proc,
                   state, before, saveRes, result, prev, nops, hist, out, fcall,
                   fret>>

\* the browser of a child that is killed goes down with it, or stays up
LiveAfterKill == {live, LiveAfterShutdown}

\* Ctrl-C in the parent while it waits in subprocess.run: run() kills the
\* child and raises KeyboardInterrupt again; the only handler around it is
\* `except subprocess.TimeoutExpired`, so the interrupt leaves
\* _run_napta_action, and napta_loop's catch_all(on_cancel="exit") ends the tool
ParentInterrupt ==
    /\ cli.at = "child"
    /\ out' = Raised("KeyboardInterrupt")
    /\ cli' = [cli EXCEPT !.at = "exited", !.sigint = "parent"]
    /\ live' \in LiveAfterKill
    /\ ClientGone
    /\ CliFrame

\* except subprocess.TimeoutExpired: the child ran longer than timeout_sec
\* and was killed
ParentTimeout ==
    /\ cli.at = "child"
    /\ out' = Ret(FALSE, "Napta action took too long and was aborted.", FALSE)
    /\ cli' = [cli EXCEPT !.at = "prompt"]
    /\ live' \in LiveAfterKill
    /\ ClientGone
    /\ CliFrame

CliInit ==
    /\ InitClient
    /\ cli \in {[frozen |-> f, loop |-> l, at |-> "prompt", sigint |-> "none"] :
                  f \in BOOLEAN, l \in BOOLEAN}
    /\ out = NoResult
    /\ fcall = NoCall
    /\ fret = NoCall
    /\ polls = 0

CliNext ==
    \/ RunNaptaAction
    \/ ActionReturn
    \/ ClientInterrupt
    \/ ParentInterrupt
    \/ ParentTimeout
    \/ Step

CliSpec == CliInit /\ [][CliNext]_vars

\* ============================================================ pure functions
\* The functions of the client that compute a value from their arguments
\* alone are applied to arguments drawn from bounded sets: fcall is the call,
\* fret what it returned.

\* day columns of the grid (the program has 5 or 7)
MaxDays == 2
\* `proj.lower()[:16]` in _sanitize_values
LabelPrefix == 16

Min(a, b) == IF a < b THEN a ELSE b
Max(a, b) == IF a > b THEN a ELSE b

\* ---- text: a Python str is the sequence of its characters
DigitChars == <<"0", "1", "2", "3", "4", "5", "6", "7", "8", "9">>
IsDigit(c) == \E i \in 1..10 : DigitChars[i] = c
DigitVal(c) == (CHOOSE i \in 1..10 : DigitChars[i] = c) - 1

\* str.lower(), on the letters the texts of the model are made of
LowerChar(c) ==
    CASE c = "A" -> "a"
      [] c = "P" -> "p"
      [] c = "X" -> "x"
      [] c = "R" -> "r"
      [] c = "E" -> "e"
      [] c = "S" -> "s"
      [] c = "T" -> "t"
      [] c = "N" -> "n"
      [] c = "Y" -> "y"
      [] OTHER -> c

Lower(t) == [i \in 1..Len(t) |-> LowerChar(t[i])]

\* t[:n]
Prefix(t, n) == SubSeq(t, 1, Min(n, Len(t)))

\* t.startswith(p)
StartsWith(t, p) == Len(p) <= Len(t) /\ SubSeq(t, 1, Len(p)) = p

\* t.strip()
RECURSIVE Strip(_)
Strip(t) ==
    IF t = <<>> THEN t
    ELSE IF Head(t) = " " THEN Strip(Tail(t))
    ELSE IF t[Len(t)] = " " THEN Strip(SubSeq(t, 1, Len(t) - 1))
    ELSE t

\* ---- the texts of the model
Empty == <<>>
OneDay == <<"1", "d">>
HalfDay == <<"0", ".", "5", "d">>
\* project labels: a short one, one that is a number, one of 17 characters
ProjP1 == <<"P", "1">>
ProjOne == <<"1">>
ProjLong == [i \in 1..(LabelPrefix + 1) |-> IF i > LabelPrefix THEN "1" ELSE "A"]
\* a text that differs from ProjLong in its 17th character only
LikeLong == [i \in 1..(LabelPrefix + 1) |-> IF i > LabelPrefix THEN "2" ELSE "a"]
\* a text that starts with ProjP1 in lower case
LikeP1 == <<"p", "1", "x">>

Projects == {ProjP1, ProjOne, ProjLong}
\* what the cells after the project cell hold
Cells == {Empty, OneDay, ProjP1, LikeP1, LikeLong}
\* the cells of a row of the grid
RowCells == {Empty, OneDay, HalfDay, ProjP1}

\* the sequences over S of length 0..n
SeqsUpTo(S, n) == UNION {[1..k -> S] : k \in 0..n}

\* ---- _verbatim_grid._sanitize_values
\* v0 == proj or v0.lower().startswith(proj.lower()[:16])
LabelLike(v0, proj) ==
    v0 = proj \/ StartsWith(Lower(v0), Prefix(Lower(proj), LabelPrefix))

\* 1) while values and values[0]: drop a first value that is label-like
RECURSIVE DropLabelLike(_, _)
DropLabelLike(values, proj) ==
    IF values = <<>> \/ values[1] = <<>> THEN values
    ELSE LET v0 == Strip(values[1])
         IN IF v0 = <<>> THEN values
            ELSE IF LabelLike(v0, proj) THEN DropLabelLike(Tail(values), proj)
            ELSE values

\* 2) exactly one extra trailing cell is dropped; 3) clip or pad to day_count
SanitizeValues(values, proj, day_count) ==
    LET v1 == DropLabelLike(values, proj)
        v2 == IF Len(v1) = day_count + 1 THEN SubSeq(v1, 1, day_count) ELSE v1
    IN IF Len(v2) > day_count THEN SubSeq(v2, 1, day_count)
       ELSE IF Len(v2) < day_count
            THEN v2 \o [i \in 1..(day_count - Len(v2)) |-> Empty]
            ELSE v2

\* ---- the total of a row, as _view_week_fast computes it
\* re.search(r'\d+(?:\.\d+)?', v): where the first digit of v is (0: none)
FirstDigit(t) ==
    IF \E i \in 1..Len(t) : IsDigit(t[i])
    THEN CHOOSE i \in 1..Len(t) :
           IsDigit(t[i]) /\ \A j \in 1..(i - 1) : ~IsDigit(t[j])
    ELSE 0

\* the index after the run of digits that starts at i
RECURSIVE RunEnd(_, _)
RunEnd(t, i) == IF i <= Len(t) /\ IsDigit(t[i]) THEN RunEnd(t, i + 1) ELSE i

\* int(t[i:j])
RECURSIVE IntOf(_, _, _)
IntOf(t, i, j) == IF i >= j THEN 0 ELSE IntOf(t, i, j - 1) * 10 + DigitVal(t[j - 1])

\* float(m.group(0)) in tenths (the texts of the model have one decimal at
\* most); 0 when the text has no number, which adds nothing to the sum
Tenths(t) ==
    LET i == FirstDigit(t)
    IN IF i = 0 THEN 0
       ELSE LET j == RunEnd(t, i)
                frac == j + 1 <= Len(t) /\ t[j] = "." /\ IsDigit(t[j + 1])
            IN IntOf(t, i, j) * 10 + (IF frac THEN DigitVal(t[j + 1]) ELSE 0)

RECURSIVE SumTenths(_)
SumTenths(cells) ==
    IF cells = <<>> THEN 0 ELSE Tenths(Head(cells)) + SumTenths(Tail(cells))

\* str(n) of a natural number
RECURSIVE DigitsOf(_)
DigitsOf(n) ==
    IF n < 10 THEN <<DigitChars[n + 1]>>
    ELSE DigitsOf(n \div 10) \o <<DigitChars[(n % 10) + 1]>>

\* f"{s:g}d"
FormatTotal(tenths) ==
    DigitsOf(tenths \div 10)
      \o (IF tenths % 10 = 0 THEN <<>> ELSE <<".", DigitChars[(tenths % 10) + 1]>>)
      \o <<"d">>

\* ---- one row of an ARIA grid, from its cells to the row view_week shows
\* the cells of the row after the first, the trailing one kept as the total
AriaRowKeepsTotal(cells, day_count) ==
    IF cells = <<>> \/ cells[1] = <<>> THEN <<>>
    ELSE IF Len(cells) = day_count + 2
         THEN <<cells[1], SanitizeValues(Tail(cells), cells[1], day_count),
                cells[Len(cells)]>>
         ELSE <<cells[1], SanitizeValues(Tail(cells), cells[1], day_count)>>

\* _verbatim_grid, ARIA branch: proj = _txt(cells.nth(0)); a row without a
\* project text is skipped (<<>>); values = the cells after the first,
\* sanitized; rows.append((proj, values))
AriaRow(cells, day_count) ==
    IF cells = <<>> \/ cells[1] = <<>> THEN <<>>
    ELSE <<cells[1], SanitizeValues(Tail(cells), cells[1], day_count)>>

\* _view_week_fast: a row of three keeps its total; for a row of two the
\* total is computed from the cells
ViewRow(row) ==
    IF Len(row) = 3 THEN row
    ELSE IF Len(row) = 2 THEN <<row[1], row[2], FormatTotal(SumTenths(row[2]))>>
    ELSE row

\* ---- _labels_from_title
\* `min(days, 7)`: a week has at most 7 day columns
WeekLen == 7

WeekdayNames == <<"Monday", "Tuesday", "Wednesday", "Thursday", "Friday",
                  "Saturday", "Sunday">>
MonthAbbrs == <<"Jan", "Feb", "Mar", "Apr", "May", "Jun", "Jul", "Aug", "Sep",
                "Oct", "Nov", "Dec">>

IsLeap(y) == y % 4 = 0 /\ (y % 100 # 0 \/ y % 400 = 0)

DaysInMonth(y, m) ==
    IF m = 2 THEN (IF IsLeap(y) THEN 29 ELSE 28)
    ELSE IF m \in {4, 6, 9, 11} THEN 30
    ELSE 31

\* a date exists in the calendar (datetime.strptime raises ValueError otherwise)
ValidDate(dt) ==
    /\ dt.y \in 1..9999
    /\ dt.m \in 1..12
    /\ dt.d \in 1..DaysInMonth(dt.y, dt.m)

\* datetime.strptime(t, "%d-%m-%Y") of a text matched by \d{2}-\d{2}-\d{4}
ParseDate(t) == [d |-> IntOf(t, 1, 3), m |-> IntOf(t, 4, 6), y |-> IntOf(t, 7, 11)]

\* f"{n:02d}"
Pad2(n) == IF n < 10 THEN <<"0">> \o DigitsOf(n) ELSE DigitsOf(n)

\* d.strftime("%d-%m-%Y"), for a year of four digits
FormatDate(dt) == Pad2(dt.d) \o <<"-">> \o Pad2(dt.m) \o <<"-">> \o DigitsOf(dt.y)

\* days of the year y before the first of month m
RECURSIVE DaysBeforeMonth(_, _)
DaysBeforeMonth(y, m) ==
    IF m = 1 THEN 0 ELSE DaysBeforeMonth(y, m - 1) + DaysInMonth(y, m - 1)

\* date.toordinal(): 1 for 01-01-0001
ToOrdinal(dt) ==
    (dt.y - 1) * 365 + ((dt.y - 1) \div 4) - ((dt.y - 1) \div 100)
      + ((dt.y - 1) \div 400) + DaysBeforeMonth(dt.y, dt.m) + dt.d

\* d.strftime("%A"): date.weekday() is (toordinal() + 6) % 7, Monday first
WeekdayName(dt) == WeekdayNames[((ToOrdinal(dt) + 6) % 7) + 1]

NextDay(dt) ==
    IF dt.d < DaysInMonth(dt.y, dt.m) THEN [dt EXCEPT !.d = dt.d + 1]
    ELSE IF dt.m < 12 THEN [d |-> 1, m |-> dt.m + 1, y |-> dt.y]
    ELSE [d |-> 1, m |-> 1, y |-> dt.y + 1]

\* start + timedelta(days=i)
RECURSIVE AddDays(_, _)
AddDays(dt, i) == IF i = 0 THEN dt ELSE NextDay(AddDays(dt, i - 1))

\* the number of labels with no lower limit
SpanDaysNoFloor(days) == Min(days, WeekLen)

\* days = max(1, min(days, 7))
SpanDays(days) == Max(1, Min(days, WeekLen))

\* f"{d.strftime('%A')} {d.strftime('%d-%m-%Y')}": the weekday name, a space
\* and the date
Label(dt) == [day |-> WeekdayName(dt), date |-> FormatDate(dt)]

\* out = [label of start + i days for i in range(days)]
LabelsFrom(start, days) == [i \in 1..days |-> Label(AddDays(start, i - 1))]

\* A title is what the regular expressions of _labels_from_title find in it:
\* form "from":  from <a> to <b>, two texts DD-MM-YYYY;
\* form "range": <a> - <b>, two texts DD-MM-YYYY;
\* form "text":  <d1>-<d2> <mon> <year>, e.g. 21-25 Oct 2025;
\* form "none":  none of these.
\* A date that does not exist makes strptime raise ValueError.
LabelsFromTitle(title) ==
    IF title.form \in {"from", "range"}
    THEN LET start == ParseDate(title.a)
             end == ParseDate(title.b)
         IN IF ~ValidDate(start) \/ ~ValidDate(end) THEN "ValueError"
            ELSE LabelsFrom(start, SpanDays(ToOrdinal(end) - ToOrdinal(start) + 1))
    ELSE IF title.form = "text"
    THEN LET start == [d |-> title.d1,
                       m |-> CHOOSE k \in 1..12 : MonthAbbrs[k] = title.mon,
                       y |-> title.year]
         IN IF ~ValidDate(start) THEN "ValueError"
            ELSE LabelsFrom(start, SpanDays(title.d2 - title.d1 + 1))
    ELSE <<>>

\* the texts of dates in the titles: a week of November 2025, the end of
\* February in a leap year and in a common year, the turn of the year, and a
\* date that does not exist
T(d10, d1, m10, m1, y1000, y100, y10, y1) ==
    <<d10, d1, "-", m10, m1, "-", y1000, y100, y10, y1>>

DateTexts ==
    {T("0", "3", "1", "1", "2", "0", "2", "5"),
     T("0", "7", "1", "1", "2", "0", "2", "5"),
     T("0", "9", "1", "1", "2", "0", "2", "5"),
     T("1", "2", "1", "1", "2", "0", "2", "5"),
     T("2", "6", "0", "2", "2", "0", "2", "4"),
     T("0", "3", "0", "3", "2", "0", "2", "4"),
     T("2", "6", "0", "2", "2", "0", "2", "5"),
     T("2", "9", "1", "2", "2", "0", "2", "5"),
     T("0", "4", "0", "1", "2", "0", "2", "6"),
     T("3", "1", "1", "1", "2", "0", "2", "5")}

Titles ==
    {[form |-> f, a |-> a, b |-> b] :
       f \in {"from", "range"}, a \in DateTexts, b \in DateTexts}
    \cup {[form |-> "text", d1 |-> d1, d2 |-> d2, mon |-> mon, year |-> 2025] :
            d1 \in {21, 27, 30}, d2 \in {3, 25, 31}, mon \in {"Feb", "Oct"}}
    \cup {[form |-> "none"]}

LabelCalls == {[fn |-> "_labels_from_title", title |-> t] : t \in Titles}

\* ---- _get_weekday_headers
\* header cells a strategy looks at in one call
MaxHeaders == 2

\* The text of a header cell is the sequence of its words (what
\* " ".join(txt.split()) keeps of it).
HeadProject == <<"Project">>
HeadMonday == <<"MONDAY", "03-11-2025">>
HeadTuesday == <<"Tuesday">>
HeaderTexts == {HeadProject, HeadMonday, HeadTuesday}

\* the weekday a word names, whatever its case (re.I, .lower()), as
\* m.group(1).title() writes it; "" when it names none
WeekdayOf(w) ==
    CASE w \in {"MONDAY", "Monday", "monday"} -> "Monday"
      [] w \in {"TUESDAY", "Tuesday", "tuesday"} -> "Tuesday"
      [] OTHER -> ""

\* \d{1,2}[/-]\d{1,2}[/-]\d{2,4}
IsDateWord(w) == w \in {"03-11-2025", "04-11-2025"}

\* where the first weekday name of the text is (0: it has none)
DayAt(txt) ==
    IF \E k \in 1..Len(txt) : WeekdayOf(txt[k]) # ""
    THEN CHOOSE k \in 1..Len(txt) :
           WeekdayOf(txt[k]) # "" /\ \A j \in 1..(k - 1) : WeekdayOf(txt[j]) = ""
    ELSE 0

\* day_re.search(txt): day = m.group(1).title(); date = m.group(2), the first
\* date after the weekday name; f"{day} {date}" if date else day
NativeLabel(txt) ==
    LET k == DayAt(txt)
        dates == {j \in (k + 1)..Len(txt) : IsDateWord(txt[j])}
    IN IF dates = {} THEN <<WeekdayOf(txt[k])>>
       ELSE <<WeekdayOf(txt[k]), txt[CHOOSE j \in dates : \A i \in dates : j <= i]>>

\* 1) for i in range(ths.count()): if day_re.search(txt): headers.append((i, label))
RECURSIVE NativeHeaders(_, _)
NativeHeaders(ths, i) ==
    IF i > Len(ths) THEN <<>>
    ELSE (IF DayAt(ths[i]) # 0 THEN <<[i |-> i - 1, lbl |-> NativeLabel(ths[i])]>>
          ELSE <<>>) \o NativeHeaders(ths, i + 1)

\* 2) for i in range(cols.count()): if a day name is in txt.lower():
\*    headers.append((i, " ".join(txt.split())))
RECURSIVE AriaHeaders(_, _)
AriaHeaders(cols, i) ==
    IF i > Len(cols) THEN <<>>
    ELSE (IF DayAt(cols[i]) # 0 THEN <<[i |-> i - 1, lbl |-> cols[i]]>> ELSE <<>>)
           \o AriaHeaders(cols, i + 1)

\* 3) the div, span and p elements of the table whose text contains a day
\*    name, numbered as the locator finds them: headers.append((i, txt))
GenericHeaders(elems) ==
    LET found == SelectSeq(elems, LAMBDA t : DayAt(t) # 0)
    IN [i \in 1..Len(found) |-> [i |-> i - 1, lbl |-> found[i]]]

\* _dedupe_keep_order: the pairs whose label is not empty and has not come before
RECURSIVE DedupeKeepOrder(_)
DedupeKeepOrder(pairs) ==
    IF pairs = <<>> THEN <<>>
    ELSE LET front == DedupeKeepOrder(SubSeq(pairs, 1, Len(pairs) - 1))
             last == pairs[Len(pairs)]
         IN IF last.lbl = <<>> \/ \E k \in 1..Len(front) : front[k].lbl = last.lbl
            THEN front
            ELSE Append(front, last)

\* _labels_from_title raises (strptime of a date that does not exist)
LabelsRaise(title) ==
    IF title.form \in {"from", "range"}
    THEN ~ValidDate(ParseDate(title.a)) \/ ~ValidDate(ParseDate(title.b))
    ELSE FALSE

\* 4) labels = _labels_from_title(title); list(enumerate(labels, start=1));
\*    an exception gives nothing
SynthHeaders(title) ==
    IF LabelsRaise(title) THEN <<>>
    ELSE LET labels == LabelsFromTitle(title)
         IN [i \in 1..Len(labels) |-> [i |-> i, lbl |-> labels[i]]]

\* what a locator gives a strategy: the texts of the elements it finds, or an
\* exception (err), which the strategy's `except Exception: pass` swallows
Found(cells) == [err |-> FALSE, cells |-> cells]
LocatorRaised == [err |-> TRUE, cells |-> <<>>]

\* the list `headers` after a strategy that found the pairs `more`: a strategy
\* whose locator raised or found no element leaves it as it was
HeadersAfter(headers, loc, more) ==
    IF loc.err \/ loc.cells = <<>> THEN headers ELSE DedupeKeepOrder(headers \o more)

\* _get_weekday_headers in which no strategy returns early: the list built by
\* the first three strategies together, and the synthesized labels if it is empty
GetWeekdayHeadersNoEarlyReturn(c) ==
    LET h1 == HeadersAfter(<<>>, c.ths, NativeHeaders(c.ths.cells, 1))
        h2 == HeadersAfter(h1, c.cols, AriaHeaders(c.cols.cells, 1))
        h3 == Prefix(HeadersAfter(h2, c.generic, GenericHeaders(c.generic.cells)),
                     WeekLen)
    IN IF h3 # <<>> THEN h3 ELSE SynthHeaders(c.title)

\* _get_weekday_headers: headers = []; each of the strategies 1 to 3 adds to
\* `headers`, dedupes, and returns it if it is not empty (the third keeps 7 at
\* most); the fourth returns the synthesized labels; otherwise []
GetWeekdayHeaders(c) ==
    LET h1 == HeadersAfter(<<>>, c.ths, NativeHeaders(c.ths.cells, 1))
    IN IF h1 # <<>> THEN h1
       ELSE LET h2 == HeadersAfter(h1, c.cols, AriaHeaders(c.cols.cells, 1))
            IN IF h2 # <<>> THEN h2
               ELSE LET h3 == Prefix(HeadersAfter(h2, c.generic,
                                                  GenericHeaders(c.generic.cells)),
                                     WeekLen)
                    IN IF h3 # <<>> THEN h3 ELSE SynthHeaders(c.title)

\* what a locator finds when the elements carry the texts of S
Located(S) == {Found(c) : c \in SeqsUpTo(S, MaxHeaders)} \cup {LocatorRaised}

\* the titles the fourth strategy reads: none, the week of the example, and
\* one with a date that does not exist
HeaderTitles ==
    {[form |-> "none"],
     [form |-> "from", a |-> T("0", "3", "1", "1", "2", "0", "2", "5"),
                       b |-> T("0", "7", "1", "1", "2", "0", "2", "5")],
     [form |-> "from", a |-> T("3", "1", "1", "1", "2", "0", "2", "5"),
                       b |-> T("0", "7", "1", "1", "2", "0", "2", "5")]}

HeaderCalls ==
    {[fn |-> "_get_weekday_headers", ths |-> a, cols |-> b, generic |-> g,
      title |-> t] :
       a \in Located(HeaderTexts), b \in Located({HeadProject, HeadMonday}),
       g \in Located({HeadProject, HeadTuesday}), t \in HeaderTitles}

\* ---- _verbatim_grid, native table: one <tr> of the body
\* `if tds.count() < 3: continue`
MinTds == 3
\* 0-based index of the td the total is read from: `tds.nth(13)`
TotalTd == 13
\* day columns of the layouts: Monday to Friday, Monday to Sunday
DayLayouts == {5, 7}

\* A td is what _read_cell_number and _txt read of it: the value attribute of
\* its number input (inp, empty when it has none) and its text (txt); role
\* is what the cell is on the page: the project, the input control of a day,
\* the value of a day, the weekly total, or another cell.
ProjectTd == [role |-> "project", inp |-> Empty, txt |-> ProjP1]
OtherTd == [role |-> "other", inp |-> Empty, txt |-> Empty]
TotalCell(t) == [role |-> "total", inp |-> Empty, txt |-> t]
\* the control and the value cell of a day that shows v ("1d", "0.5d" or "")
DayTds(v) ==
    <<[role |-> "control", inp |-> SubSeq(v, 1, Len(v) - 1), txt |-> Empty],
      [role |-> "value", inp |-> Empty, txt |-> v]>>

\* _read_cell_number: the value of the cell's number input if it has one,
\* otherwise the first number in its text, as f"{float(v):g}d"; "0d" if none
ReadCellNumber(cell) ==
    IF Strip(cell.inp) # Empty THEN FormatTotal(Tenths(cell.inp))
    ELSE IF FirstDigit(cell.txt) # 0 THEN FormatTotal(Tenths(cell.txt))
    ELSE <<"0", "d">>

\* [i for i in range(2, tds.count(), 2)][:day_count], as 1-based positions
ValueIdxs(n, day_count) ==
    [k \in 1..Min(day_count, IF n > 2 THEN (n - 1) \div 2 ELSE 0) |-> 2 * k + 1]

\* for each tr: skipped with fewer than 3 tds or without a project text;
\* values = _read_cell_number of every second td from the third;
\* total = _read_cell_number(tds.nth(13)) if there are 14 tds or more, else
\* the sum of the numbers of the values; rows.append((proj, values, total))
NativeRow(tds, day_count) ==
    IF Len(tds) < MinTds \/ tds[1].txt = Empty THEN <<>>
    ELSE LET idxs == ValueIdxs(Len(tds), day_count)
             values == [k \in 1..Len(idxs) |-> ReadCellNumber(tds[idxs[k]])]
             total == IF Len(tds) >= TotalTd + 1 THEN ReadCellNumber(tds[TotalTd + 1])
                      ELSE FormatTotal(SumTenths(values))
         IN <<tds[1].txt, SanitizeValues(values, tds[1].txt, day_count), total>>

\* the days of a row: the first shows `first`, the last shows `last`, the
\* days between them one day each
RECURSIVE DaysTds(_, _, _)
DaysTds(n, first, last) ==
    IF n = 1 THEN DayTds(last)
    ELSE DayTds(first) \o DaysTds(n - 1, OneDay, last)

\* the weekly total the page shows for a row, when it is the sum of its days
SumOfDays(tds) ==
    FormatTotal(SumTenths([k \in 1..Len(tds) |->
                             IF tds[k].role = "value" THEN tds[k].txt ELSE Empty]))

\* the rows of a table of n day columns: the project, a control and a value
\* cell for each day, and then nothing, or two other cells and the total cell
NativeRows(n) ==
    LET days == {<<ProjectTd>> \o DaysTds(n, f, l) :
                   f \in {OneDay, HalfDay}, l \in {Empty, OneDay, HalfDay}}
    IN days \cup {d \o <<OtherTd, OtherTd, TotalCell(SumOfDays(d))>> : d \in days}

\* day_count is the number of the day columns of the table
NativeRowCalls ==
    UNION {{[fn |-> "native_row", tds |-> r, day_count |-> n] : r \in NativeRows(n)} :
             n \in DayLayouts}

\* ---- handle_forget_command (cli.py).  What the user types at the
\* confirmation is a text, or the prompt is interrupted (Ctrl-C, end of input)
\* and input_prompt raises UserCancelled.

\* the characters of the words commands are made of
Word(w) ==
    CASE w = "forget" -> <<"f", "o", "r", "g", "e", "t">>
      [] w = "forgetful" -> <<"f", "o", "r", "g", "e", "t", "f", "u", "l">>
      [] w = "reset" -> <<"r", "e", "s", "e", "t">>
      [] w = "RESET" -> <<"R", "E", "S", "E", "T">>
      [] w = "resetting" -> <<"r", "e", "s", "e", "t", "t", "i", "n", "g">>
      [] w = "really" -> <<"r", "e", "a", "l", "l", "y">>
      [] w = "all" -> <<"a", "l", "l">>
      [] w = "napta" -> <<"n", "a", "p", "t", "a">>
      [] w = "Napta" -> <<"N", "a", "p", "t", "a">>
      [] w = "session" -> <<"s", "e", "s", "s", "i", "o", "n">>
      [] w = "profile" -> <<"p", "r", "o", "f", "i", "l", "e">>
      [] w = "my" -> <<"m", "y">>
      [] w = "data" -> <<"d", "a", "t", "a">>
      [] w = "generated" -> <<"g", "e", "n", "e", "r", "a", "t", "e", "d">>
      [] w = "factory" -> <<"f", "a", "c", "t", "o", "r", "y">>
      [] w = "everything" -> <<"e", "v", "e", "r", "y", "t", "h", "i", "n", "g">>
      [] w = "timesheet" -> <<"t", "i", "m", "e", "s", "h", "e", "e", "t">>
      [] w = "files" -> <<"f", "i", "l", "e", "s">>
      [] w = "deregister" -> <<"d", "e", "r", "e", "g", "i", "s", "t", "e", "r">>
      [] w = "view" -> <<"v", "i", "e", "w">>
      [] w = "yes" -> <<"y", "e", "s">>
      [] w = "YES" -> <<"Y", "E", "S">>
      [] w = "yep" -> <<"y", "e", "p">>
      [] w = "no" -> <<"n", "o">>
      [] w = "ok" -> <<"o", "k">>
      [] w = "y" -> <<"y">>
      [] w = "Y" -> <<"Y">>
      [] w = "N" -> <<"N">>
      [] w = "" -> <<>>

\* the text of words with one blank between them
RECURSIVE Phrase(_)
Phrase(ws) ==
    IF ws = <<>> THEN <<>>
    ELSE IF Len(ws) = 1 THEN Word(ws[1])
    ELSE Word(ws[1]) \o <<" ">> \o Phrase(Tail(ws))

\* t.replace(old, ""): the occurrences of old, from the left, without overlap
RECURSIVE Remove(_, _)
Remove(t, old) ==
    IF t = <<>> THEN t
    ELSE IF StartsWith(t, old) THEN Remove(SubSeq(t, Len(old) + 1, Len(t)), old)
    ELSE <<Head(t)>> \o Remove(Tail(t), old)

\* a prompt that takes everything but a no for a yes
ConfirmUnlessNo(ans) == Lower(Strip(ans.txt)) \notin {Phrase(<<"N">>), Phrase(<<"no">>)}

\* _confirm: input_prompt(...).strip().lower() in ("y", "yes")
Confirm(ans) == Lower(Strip(ans.txt)) \in {Phrase(<<"y">>), Phrase(<<"yes">>)}

\* t = (text or "").strip().lower()
ForgetText(text) == Lower(Strip(text))

\* key = t.replace("really ", "").strip()
ForgetKey(t) == Strip(Remove(t, Phrase(<<"really", "">>)))

\* what a call did: whether it took the text as a command, whether it asked
\* for confirmation, the clearing operation it invoked, whether it closed the
\* client, the kind of message it returned, whether it raised
Forgot(handled, asked, cleared, closed, msg) ==
    [handled |-> handled, asked |-> asked, cleared |-> cleared,
     closed |-> closed, msg |-> msg, err |-> FALSE]

NotACommand == Forgot(FALSE, FALSE, "none", FALSE, "none")
Refused(msg) == Forgot(TRUE, FALSE, "none", FALSE, msg)
Cancelled == [Forgot(TRUE, TRUE, "none", FALSE, "none")
                 EXCEPT !.err = TRUE]

\* if _confirm(...): clear(); return [cleared]   return [cancelled];
\* clear_napta is followed by napta_client.close() when a client was passed
ConfirmThenClear(clear, ans, client) ==
    IF ans.err THEN Cancelled
    ELSE IF Confirm(ans)
    THEN Forgot(TRUE, TRUE, clear, clear = "clear_napta" /\ client, "cleared")
    ELSE Forgot(TRUE, TRUE, "none", FALSE, "cancelled")

HandleForgetCommand(text, flow, ans, client) ==
    LET t == ForgetText(text)
        key == ForgetKey(t)
    IN  IF ~(\/ StartsWith(t, Phrase(<<"forget">>))
             \/ StartsWith(t, Phrase(<<"reset">>))
             \/ t \in {Phrase(<<"factory", "reset">>), Phrase(<<"reset", "everything">>)})
        THEN NotACommand
        ELSE IF flow = "govtech"
                /\ key \in {Phrase(<<"reset", "napta">>), Phrase(<<"forget", "napta">>)}
        THEN Refused("blocked")
        ELSE IF flow \in {"govtech", "napta"} /\ key = Phrase(<<"reset">>)
        THEN Refused("ambiguous")
        ELSE IF flow = "napta"
                /\ key \in {Phrase(<<"reset", "my", "data">>),
                            Phrase(<<"reset", "all", "my", "data">>),
                            Phrase(<<"forget", "profile">>), Phrase(<<"reset", "profile">>),
                            Phrase(<<"forget", "session">>), Phrase(<<"reset", "session">>)}
        THEN Refused("blocked")
        ELSE IF key \in {Phrase(<<"forget">>), Phrase(<<"forget", "session">>),
                         Phrase(<<"reset", "timesheet", "data">>)}
        THEN IF flow = "napta" THEN Refused("blocked")
             ELSE ConfirmThenClear("clear_session", ans, client)
        ELSE IF key \in {Phrase(<<"forget", "profile">>), Phrase(<<"deregister">>),
                         Phrase(<<"reset", "profile">>)}
        THEN IF flow = "napta" THEN Refused("blocked")
             ELSE ConfirmThenClear("clear_profile", ans, client)
        ELSE IF key \in {Phrase(<<"forget", "napta">>), Phrase(<<"reset", "napta">>)}
        THEN IF flow = "govtech" THEN Refused("blocked")
             ELSE ConfirmThenClear("clear_napta", ans, client)
        ELSE IF key \in {Phrase(<<"forget", "generated">>), Phrase(<<"reset", "generated">>),
                         Phrase(<<"reset", "timesheet", "files">>)}
        THEN ConfirmThenClear("clear_generated", ans, client)
        ELSE IF key \in {Phrase(<<"reset", "my", "data">>),
                         Phrase(<<"reset", "all", "my", "data">>),
                         Phrase(<<"reset", "all", "data">>), Phrase(<<"forget", "all">>)}
        THEN IF flow = "napta" THEN Refused("blocked")
             ELSE ConfirmThenClear("clear_govtech_only", ans, client)
        ELSE IF key \in {Phrase(<<"forget", "really", "all">>), Phrase(<<"factory", "reset">>),
                         Phrase(<<"reset", "everything">>)}
        THEN ConfirmThenClear("clear_all", ans, client)
        ELSE Refused("unknown")

Typed(chars) == [err |-> FALSE, txt |-> chars]
Interrupted == [err |-> TRUE, txt |-> <<>>]

\* the answers that say yes
YesAnswers == {Typed(Phrase(<<"y">>)), Typed(Phrase(<<"yes">>)),
               Typed(Phrase(<<"", "YES">>)), Typed(Phrase(<<"Y", "">>))}

Answers == YesAnswers
             \cup {Typed(<<>>), Typed(Phrase(<<"no">>)), Typed(Phrase(<<"N">>)),
                   Typed(Phrase(<<"yep">>)), Typed(Phrase(<<"y", "yes">>)),
                   Typed(Phrase(<<"ok">>)), Interrupted}

ForgetTexts ==
    {Phrase(ws) : ws \in
       {<<"forget">>, <<"reset">>, <<"forget", "session">>,
        <<"reset", "session">>, <<"reset", "timesheet", "data">>,
        <<"forget", "profile">>, <<"reset", "profile">>, <<"deregister">>,
        <<"forget", "napta">>, <<"RESET", "napta">>, <<"reset", "", "napta">>,
        <<"", "RESET", "Napta", "">>, <<"forget", "generated">>,
        <<"reset", "timesheet", "files">>, <<"reset", "my", "data">>,
        <<"reset", "all", "my", "data">>, <<"forget", "all">>,
        <<"forget", "really", "all">>, <<"factory", "reset">>,
        <<"really", "factory", "reset">>, <<"reset", "everything">>,
        <<"reset", "really">>, <<"forgetful", "napta">>,
        <<"resetting", "everything">>, <<"view">>, <<"">>}}

Flows == {"govtech", "napta", "none"}

ForgetCalls ==
    {[fn |-> "forget", text |-> x, flow |-> f, ans |-> a, client |-> c] :
        x \in ForgetTexts, f \in Flows, a \in Answers, c \in BOOLEAN}

\* ---- the calls
Controls == {"create", "save", "submit"}
Chips == {"", "draft", "approval pending", "submitted"}

DetectCalls ==
    {[fn |-> "_wait_for_save_submit_chip", vis |-> v, chip |-> c] :
       v \in SUBSET Controls, c \in Chips}

SanitizeCalls ==
    {[fn |-> "_sanitize_values", values |-> v, proj |-> p, day_count |-> n] :
       v \in SeqsUpTo(Cells, MaxDays + 2), p \in Projects, n \in 0..MaxDays}

RowCalls ==
    {[fn |-> "row", cells |-> c, day_count |-> n] :
       c \in SeqsUpTo(RowCells, MaxDays + 2), n \in 0..MaxDays}

\* c is a call of one of the functions, with its arguments
IsFnCall(c) ==
    \/ c \in DetectCalls
    \/ c \in SanitizeCalls
    \/ c \in RowCalls
    \/ c \in LabelCalls
    \/ c \in HeaderCalls
    \/ c \in NativeRowCalls
    \/ c \in ForgetCalls

Returned(v) == [fn |-> fcall.fn, val |-> v]

FnFrame == UNCHANGED <<week, loginPage, shown, header, rendered, toast, handles,
                       live, closes, closeErr, age, cache, op, which, proc, pc,
                       state, before, attempts, ret, saveRes, result, prev, nops,
                       loaded, clicks, dets, sawToast, verified, wrote, cli, out,
                       fcall, polls>>

FnInit ==
    /\ InitClient
    /\ ~loginPage
    /\ cli = NoCli
    /\ out = NoResult
    /\ IsFnCall(fcall)
    /\ fret = NoCall
    /\ polls = 0

WaitForSaveSubmitChipCall ==
    /\ fcall.fn = "_wait_for_save_submit_chip"
    /\ fret.fn = "none"
    /\ fret' = Returned(WaitForSaveSubmitChip(fcall.vis, fcall.chip))
    /\ FnFrame

SanitizeValuesCall ==
    /\ fcall.fn = "_sanitize_values"
    /\ fret.fn = "none"
    /\ fret' = Returned(SanitizeValues(fcall.values, fcall.proj, fcall.day_count))
    /\ FnFrame

\* one row of an ARIA grid scraped and shown
RowCall ==
    /\ fcall.fn = "row"
    /\ fret.fn = "none"
    /\ fret' = Returned(ViewRow(AriaRow(fcall.cells, fcall.day_count)))
    /\ FnFrame

LabelsFromTitleCall ==
    /\ fcall.fn = "_labels_from_title"
    /\ fret.fn = "none"
    /\ fret' = Returned(LabelsFromTitle(fcall.title))
    /\ FnFrame

GetWeekdayHeadersCall ==
    /\ fcall.fn = "_get_weekday_headers"
    /\ fret.fn = "none"
    /\ fret' = Returned(GetWeekdayHeaders(fcall))
    /\ FnFrame

\* one row of a native table scraped and shown
NativeRowCall ==
    /\ fcall.fn = "native_row"
    /\ fret.fn = "none"
    /\ fret' = Returned(ViewRow(NativeRow(fcall.tds, fcall.day_count)))
    /\ FnFrame

HandleForgetCommandCall ==
    /\ fcall.fn = "forget"
    /\ fret.fn = "none"
    /\ fret' = Returned(HandleForgetCommand(fcall.text, fcall.flow, fcall.ans,
                                            fcall.client))
    /\ FnFrame

FnNext ==
    \/ HandleForgetCommandCall
    \/ LabelsFromTitleCall
    \/ NativeRowCall
    \/ GetWeekdayHeadersCall
    \/ WaitForSaveSubmitChipCall
    \/ SanitizeValuesCall
    \/ RowCall

FnSpec == FnInit /\ [][FnNext]_vars

\* ===================================================================== claims
ActionProcs == SaveProcs \cup SubmitProcs

\* the executing method (one of ps) has just returned or raised
AtReturn(ps) == op # "idle" /\ pc = "ret" /\ proc \in ps

\* what a detection saw when it timed out on a page that showed nothing
NothingSeen == [vis |-> {}, chip |-> ""]

\* a detection that saw no control and a chip saying approval pending / submitted
SawTerminal(d) == d.vis = {} /\ d.chip \in {"approval pending", "submitted"}

AlreadySubmittedMsgs ==
    {"Timesheet already submitted for this week.", "Timesheet already submitted.",
     "Next week already submitted."}

AllPerformed == \A i \in 1..Len(clicks) : clicks[i].ok

\* C1: when the page shows the week as approval pending or submitted, a save
\* or submit method requests no Create, Save or Submit click, leaves the week
\* as it is, and returns ok=true with an "already submitted" message; this
\* holds for the first call and for every later one.
C1_TerminalIsNoOp ==
    (op # "idle" /\ proc \in ActionProcs /\ Len(dets) >= 1 /\ SawTerminal(dets[1]))
    => /\ clicks = <<>>
       /\ week[shown] \in Terminal
       /\ pc \in {"ret", "none_next"}
       /\ pc = "ret" => /\ ret.kind = "returned"
                        /\ ret.ok
                        /\ ret.msg \in AlreadySubmittedMsgs

\* a second operation, a submit, finds the week already submitted
C1_Witness ==
    /\ nops >= 2
    /\ AtReturn({"submit_current"})
    /\ Len(dets) = 1
    /\ SawTerminal(dets[1])
    /\ ret = Ret(TRUE, "Timesheet already submitted.", FALSE)

InformationalMsgs(p) ==
    CASE p = "save_current" -> {"Timesheet already submitted for this week."}
      [] p = "save_next" ->
           {"Next week already submitted.",
            "Next week already saved. 'Submit for approval' may be visible.",
            "Next week saved. Do you want to 'Submit for approval'? Type sbnw"}
      [] OTHER -> {AlreadySubmittedMsg(p)}

C3_SaveAfterSaveIsAlreadySaved ==
    (AtReturn({"save_current"}) /\ op = "save_current_week" /\ AllPerformed
       /\ Len(dets) >= 1 /\ dets[1].vis \in {{"save"}, {"submit"}})
    => /\ ret.kind = "returned"
       /\ ret.ok
       /\ prev => /\ ret = Ret(TRUE, AlreadySavedMsg("save_current"), FALSE)
                  /\ clicks = <<>>

\* C4: in a save method whose first detection saw only the Create control,
\* the first click requested is Create; Save is requested only as the second
\* click, after Create was performed and the state was detected again; the
\* method returns ok=true only with Create performed and the week in Draft;
\* and when both clicks go through and the second detection sees Save, it
\* returns ok=true "Saved" after exactly Create then Save.
C4_CreateThenSave ==
    (op # "idle" /\ proc \in SaveProcs /\ Len(dets) >= 1 /\ dets[1].vis = {"create"})
    => /\ Len(clicks) >= 1 => clicks[1].c = "create"
       /\ \A i \in 1..Len(clicks) :
            clicks[i].c = "save" => i = 2 /\ clicks[1].ok /\ Len(dets) = 2
       /\ (pc = "ret" /\ ret.ok)
            => /\ Len(clicks) >= 1
               /\ clicks[1].ok
               /\ Len(dets) = 2
               /\ week[shown] \in {"Draft", "SubmitReady"}
       /\ (pc = "ret" /\ Len(dets) = 2 /\ dets[2].vis = {"save"} /\ AllPerformed)
            => /\ clicks = <<[c |-> "create", ok |-> TRUE], [c |-> "save", ok |-> TRUE]>>
               /\ ret = Ret(TRUE, SavedMsg(proc), FALSE)
               /\ week[shown] \in {"Draft", "SubmitReady"}

\* save on a week without a timesheet: Create, detect again, Save, ok=true
C4_Witness ==
    /\ AtReturn({"save_current"})
    /\ Len(dets) = 2
    /\ dets[1].vis = {"create"}
    /\ clicks = <<[c |-> "create", ok |-> TRUE], [c |-> "save", ok |-> TRUE]>>
    /\ ret = Ret(TRUE, "Saved (draft).", FALSE)
    /\ week[0] = "SubmitReady"

\* C5: save_and_submit_current_week runs its submit step only after its save
\* step returned ok=true; when the save step returned ok=false the operation
\* returns exactly that result and no Submit click was requested; when it
\* returned ok=true the operation returns what the submit step returned.
C5_SaveThenSubmit ==
    /\ (op = "save_and_submit_current_week" /\ proc = "submit_current")
         => (saveRes.kind = "returned" /\ saveRes.ok)
    /\ (op = "idle" /\ saveRes.kind = "returned")
         => IF saveRes.ok
            THEN proc = "submit_current" /\ result = ret
            ELSE /\ proc = "save_current"
                 /\ result = saveRes
                 /\ \A i \in 1..Len(clicks) : clicks[i].c # "submit"

\* the save step failed on its Save click and the operation returned that
C5_Witness ==
    /\ op = "idle"
    /\ saveRes = Ret(FALSE, "Could not click 'Save'.", TRUE)
    /\ result = saveRes
    /\ proc = "save_current"

\* C6 as stated: a submit method returns ok=true "submitted for approval"
\* only after its last click, a performed Submit click, was followed by a
\* _wait_until_submitted that returned True.
C6_SubmittedOnlyWhenVerified ==
    (AtReturn(SubmitProcs) /\ ret.ok /\ ret.msg = SubmittedMsg(proc))
    => /\ verified
       /\ Len(clicks) >= 1
       /\ clicks[Len(clicks)] = [c |-> "submit", ok |-> TRUE]

\* C7 as stated: a save method returns ok=true "Saved" only if
\* _saw_saved_toast saw the confirmation after the Save click.
C7_SavedOnlyWhenConfirmed ==
    (AtReturn(SaveProcs) /\ ret.ok /\ ret.msg = SavedMsg(proc)) => sawToast

\* C8 as stated: no exception leaves a public operation.
C8_NoExceptionEscapes == result.kind # "raised"

\* C9 as stated: when the page that was opened is the sign-in page, the
\* method returns ok=false with the login-required message, having requested
\* no click and no week navigation.
C9_SignInPageIsReported ==
    (op # "idle" /\ pc = "ret" /\ loaded /\ OnLoginPage)
    => /\ ret.kind = "returned"
       /\ ~ret.ok
       /\ clicks = <<>>
       /\ attempts = 0

\* C10 as stated, for the methods that return: a save or submit method in
\* which a Create, Save or Submit click could not be performed returns
\* ok=false with a screenshot named in the message, and the failed click is
\* the last one it requested.
C10_FailedClickIsReportedWithScreenshot ==
    (AtReturn(ActionProcs) /\ ~AllPerformed /\ ret.kind = "returned")
    => /\ ~ret.ok
       /\ ret.shot
       /\ ~clicks[Len(clicks)].ok
       /\ \A i \in 1..(Len(clicks) - 1) : clicks[i].ok

\* the methods that navigate to the next week, and where each continues once
\* _go_to_next_week has returned True
NextProcs == {"save_next", "submit_next"}

AfterNavigation ==
    \/ proc \in NextProcs /\ pc = "detect"
    \/ proc = "view" /\ which = "next" /\ pc = "settle"

\* C11 as stated: _go_to_next_week returns False only after its third
\* click+poll cycle, and the caller then returns ok=false with a screenshot
\* named in the message, having requested no Create, Save or Submit click.
C11_NavigationFailureIsReported ==
    [][pc = "nav_failed"
         => /\ attempts = NavAttempts
            /\ ret'.kind = "returned"
            /\ ~ret'.ok
            /\ ret'.shot
            /\ clicks' = <<>>]_vars

\* C12 as stated: when _go_to_next_week has returned True, the page displays
\* another week than the one the timesheet opened on.
C12_NavigationSuccessMeansWeekChanged == AfterNavigation => shown # 0

\* the week view_week(which) is to display, counted from the current week (0)
WeekOf(w) ==
    CASE w = "next" -> 1
      [] w = "previous" -> -1
      [] OTHER -> 0

\* C14 as stated: when view_week(which) reads the grid off the page, the page
\* displays the current week for "current", the week after it for "next" and
\* the week before it for "previous".
C14_ViewShowsRequestedWeek ==
    (proc = "view" /\ pc = "scrape") => shown = WeekOf(which)

C15_CacheHitIffFresh ==
    [][pc = "cache"
         => IF cache.which = which /\ age < CacheTtl
            THEN /\ pc' = "ret"
                 /\ ret' = Ret(TRUE, cache.text, FALSE)
                 /\ handles' = handles
                 /\ loaded' = FALSE
                 /\ cache' = cache
            ELSE /\ pc' = "ensure"
                 /\ ret' = NoResult]_vars

\* an entry written TickS seconds ago for the same `which` was returned
C15_Witness ==
    /\ proc = "view"
    /\ pc = "ret"
    /\ ~loaded
    /\ cache.which = which
    /\ age = TickS
    /\ ret = Ret(TRUE, cache.text, FALSE)

\* C16: _ensure_session(headless=True) on a client whose four handles are
\* set launches no browser, leaves the handles as they are and goes on to
\* open the timesheet.
C16_EnsureSessionIsIdempotent ==
    [][(pc = "ensure" /\ handles = AllHandles)
         => /\ handles' = handles
            /\ live' = live
            /\ pc' = "open"]_vars

\* a second operation reuses the session the first one opened
C16_Witness ==
    /\ nops = 2
    /\ closes = 0
    /\ pc = "open"
    /\ handles = AllHandles
    /\ live = 1

\* C17 as stated: at most one browser launched by the client is up.
C17_AtMostOneBrowserLive == live <= 1

\* C18: after close(), called once or again, on a client with or without a
\* session and whether or not a teardown step raised, the driver, browser,
\* context and page handles are all unset; close() itself raises nothing.
C18_CloseUnsetsHandles == closes > 0 => (op = "idle" /\ handles = NoHandles)

\* a close() whose teardown raised, followed by a close() of the closed client
C18_Witness ==
    /\ closes = 2
    /\ closeErr
    /\ handles = NoHandles

\* C19: the storage snapshot file is written only by a step of login(); no
\* step of view_week, of the save and submit operations, of _ensure_session
\* or of close() writes it.
C19_OnlyLoginWritesSnapshot ==
    [][(wrote' /\ ~wrote) => (op = "login" /\ op' = "login")]_vars

\* a session was opened by the operation before, which wrote nothing; the
\* login after it wrote the snapshot
C19_Witness ==
    /\ nops = 2
    /\ op = "login"
    /\ pc = "ret"
    /\ handles = AllHandles
    /\ wrote

\* C20 as stated: login() returns ok=true only if a storage_state write to
\* STATE_PATH succeeded during the call.
C20_LoginOkOnlyIfSnapshotWritten ==
    (op = "login" /\ pc = "ret" /\ ret.kind = "returned" /\ ret.ok) => wrote

\* C21 as stated: when the login poll timed out, in this process or in the
\* helper, login() returns ok=false with a message that names a screenshot,
\* and the snapshot was not written.
C21_LoginTimeoutIsReportedWithScreenshot ==
    [][(pc = "login_timeout" \/ pc = "helper_timeout")
         => /\ pc' = "ret"
            /\ ret'.kind = "returned"
            /\ ~ret'.ok
            /\ ret'.shot
            /\ ~wrote']_vars

\* C29 as stated: in a save or submit flow the state is detected again after
\* each Create / Save / Submit click before the next click is chosen, so the
\* detections made are never fewer than the clicks requested.
C29_StateRedetectedAfterEachClick ==
    (op \in {"save_current_week", "save_next_week", "submit_current_week",
             "submit_next_week"})
    => Len(dets) >= Len(clicks)

\* C30 as stated: the three triggers of a navigation cycle are a fallback
\* chain, so that one cycle moves the page at most one week on: after the
\* triggers of cycle number `attempts` the page is at most `attempts` weeks
\* past the week the timesheet opened on.
C30_OneTriggerPerCycle ==
    (pc = "nav_poll") => shown <= attempts

\* C28 as stated: state detection gives Create the first priority and Submit
\* priority over Save: with Create visible it returns "create"; with Submit
\* and Save both visible and Create not, it returns "submit".
C28_DetectionPriority ==
    (fret.fn = "_wait_for_save_submit_chip")
    => /\ ("create" \in fcall.vis) => fret.val = "create"
       /\ ("create" \notin fcall.vis /\ {"save", "submit"} \subseteq fcall.vis)
            => fret.val = "submit"

\* C25 as stated: a raw row of day_count + 1 values whose first value equals
\* the project label is sanitized to exactly the day_count values after the
\* first, in their order, and the label is not among them.  (Rows in which
\* the label itself comes again after the first value are left aside.)
C25_DuplicatedLabelDropped ==
    (/\ fret.fn = "_sanitize_values"
     /\ Len(fcall.values) = fcall.day_count + 1
     /\ fcall.values[1] = fcall.proj
     /\ \A i \in 2..Len(fcall.values) : fcall.values[i] # fcall.proj)
    => /\ Len(fret.val) = fcall.day_count
       /\ fret.val = Tail(fcall.values)
       /\ \A i \in 1..Len(fret.val) : fret.val[i] # fcall.proj

\* a row of an ARIA grid with day_count + 1 values after the project cell,
\* the first of them not label-like and the extra (last) one with a number in it
RowWithTotalCell ==
    /\ fcall.fn = "row"
    /\ Len(fcall.cells) = fcall.day_count + 2
    /\ fcall.cells[1] # Empty
    /\ ~LabelLike(Strip(fcall.cells[2]), fcall.cells[1])
    /\ FirstDigit(fcall.cells[Len(fcall.cells)]) # 0

W45 == [form |-> "from",
        a |-> T("0", "3", "1", "1", "2", "0", "2", "5"),
        b |-> T("0", "9", "1", "1", "2", "0", "2", "5")]

W45Labels ==
    <<[day |-> "Monday", date |-> T("0", "3", "1", "1", "2", "0", "2", "5")],
      [day |-> "Tuesday", date |-> T("0", "4", "1", "1", "2", "0", "2", "5")],
      [day |-> "Wednesday", date |-> T("0", "5", "1", "1", "2", "0", "2", "5")],
      [day |-> "Thursday", date |-> T("0", "6", "1", "1", "2", "0", "2", "5")],
      [day |-> "Friday", date |-> T("0", "7", "1", "1", "2", "0", "2", "5")],
      [day |-> "Saturday", date |-> T("0", "8", "1", "1", "2", "0", "2", "5")],
      [day |-> "Sunday", date |-> T("0", "9", "1", "1", "2", "0", "2", "5")]>>

\* _labels_from_title returned for a title 'from <a> to <b>' of two dates
\* that exist
LabelsOfNumericRange ==
    /\ fret.fn = "_labels_from_title"
    /\ fcall.title.form = "from"
    /\ ValidDate(ParseDate(fcall.title.a))
    /\ ValidDate(ParseDate(fcall.title.b))

\* C27: for a title 'from DD-MM-YYYY to DD-MM-YYYY' the labels are one per
\* consecutive calendar day from the start date on, each the weekday name and
\* the date as DD-MM-YYYY; their number is the length of the span in days,
\* at most 7 and at least 1; for 'W45 from 03-11-2025 to 09-11-2025' they are
\* Monday 03-11-2025 through Sunday 09-11-2025.
C27_LabelsFromNumericRange ==
    LabelsOfNumericRange
    => LET first == ToOrdinal(ParseDate(fcall.title.a))
           span == ToOrdinal(ParseDate(fcall.title.b)) - first + 1
           n == IF span < 1 THEN 1 ELSE IF span > 7 THEN 7 ELSE span
       IN /\ Len(fret.val) = n
          /\ \A i \in 1..Len(fret.val) :
               LET dt == ParseDate(fret.val[i].date)
               IN /\ Len(fret.val[i].date) = 10
                  /\ ValidDate(dt)
                  /\ FormatDate(dt) = fret.val[i].date
                  /\ ToOrdinal(dt) = first + i - 1
                  /\ fret.val[i].day = WeekdayNames[((first + i + 5) % 7) + 1]
          /\ (fcall.title = W45) => fret.val = W45Labels

\* a span of ten days, which starts before the end of a month: seven labels
C27_Witness ==
    /\ LabelsOfNumericRange
    /\ ToOrdinal(ParseDate(fcall.title.b)) - ToOrdinal(ParseDate(fcall.title.a)) >= 9
    /\ Len(fret.val) = 7
    /\ ParseDate(fret.val[1].date).m # ParseDate(fret.val[7].date).m

\* C24: every public operation terminates: once called, it returns or raises.
C24_EveryOperationTerminates ==
    (op # "idle") ~> (op = "idle")

\* a navigation in the last poll of its last click cycle
C24_Witness ==
    /\ pc = "nav_poll"
    /\ attempts = NavAttempts
    /\ polls = NavPolls - 1

\* C22 as stated: while the caller runs an event loop, no operation starts
\* the automation driver in the caller's process (in _ensure_session, or in
\* the login's own launch): it runs in a child process.
C22_NoDriverInProcessUnderLoop ==
    (cli.at = "inline" /\ cli.loop) => pc \notin {"ensure", "login_launch"}

\* C23 as stated: an action that got a keyboard interrupt, in the process that
\* runs it or in the parent that waits for the child, ends with
\* _run_napta_action returning (False, "Cancelled."); the interrupt does not
\* leave the call.
C23_InterruptIsCancelled ==
    (cli.at \in {"prompt", "exited"} /\ cli.sigint # "none")
    => out = Ret(FALSE, CancelledMsg, FALSE)

\* C31 as stated: whenever _go_to_next_week has returned True, the page
\* displays exactly the week after the one the timesheet opened on (week 1),
\* however the rendering of the page interleaves with the click cycles; the
\* save-next and submit-next methods then act on that week.
C31_NavigationLandsOnNextWeek == AfterNavigation => shown = 1

\* C32 as stated: once a save or submit operation that performed a Create,
\* Save or Submit click is over, no entry of the view cache is left; an entry
\* that is there was written before the click (these operations write none),
\* and a view_week for its `which` within CacheTtl seconds returns it.
C32_NoCacheEntrySurvivesAClick ==
    (/\ op = "idle"
     /\ proc \in ActionProcs
     /\ result.kind # "none"
     /\ \E i \in 1..Len(clicks) : clicks[i].ok)
    => cache = NoCache

\* C33 as stated: when login() has returned ok=true, the next view, save or
\* submit operation of the client runs in a context made from the snapshot
\* that login wrote: the client holds no session from before the login, which
\* _ensure_session would go on using.
C33_NoSessionFromBeforeLogin ==
    (/\ op = "idle"
     /\ proc = "login"
     /\ result.kind = "returned"
     /\ result.ok)
    => handles # AllHandles

\* what each strategy of _get_weekday_headers yields on its own
YieldNative(c) ==
    IF c.ths.err THEN <<>> ELSE DedupeKeepOrder(NativeHeaders(c.ths.cells, 1))
YieldAria(c) ==
    IF c.cols.err THEN <<>> ELSE DedupeKeepOrder(AriaHeaders(c.cols.cells, 1))
YieldGeneric(c) ==
    IF c.generic.err THEN <<>>
    ELSE Prefix(DedupeKeepOrder(GenericHeaders(c.generic.cells)), WeekLen)

\* C34: the column headers returned are those of the first strategy, in the
\* order native header cells, column-header roles, generic weekday texts,
\* labels synthesized from the title, that yields a list that is not empty,
\* and nothing else; they are empty only if all four yield nothing.
C34_FirstStrategyThatYields ==
    (fret.fn = "_get_weekday_headers")
    => LET y1 == YieldNative(fcall)
           y2 == YieldAria(fcall)
           y3 == YieldGeneric(fcall)
           y4 == SynthHeaders(fcall.title)
       IN /\ fret.val = (IF y1 # <<>> THEN y1
                         ELSE IF y2 # <<>> THEN y2
                         ELSE IF y3 # <<>> THEN y3
                         ELSE y4)
          /\ (fret.val = <<>>)
               <=> (y1 = <<>> /\ y2 = <<>> /\ y3 = <<>> /\ y4 = <<>>)

\* header cells without a weekday name, column-header roles with one: the
\* second strategy's headers are returned although the third and the fourth
\* would yield headers too
C34_Witness ==
    /\ fret.fn = "_get_weekday_headers"
    /\ fcall.ths = Found(<<HeadProject>>)
    /\ fcall.cols = Found(<<HeadMonday, HeadMonday>>)
    /\ YieldGeneric(fcall) # <<>>
    /\ SynthHeaders(fcall.title) # <<>>
    /\ fret.val = <<[i |-> 0, lbl |-> HeadMonday]>>

\* C35 as stated: for a row of a native table with 5 or with 7 day columns,
\* the total shown is the text of the page's weekly-total cell when the row
\* has one, and otherwise the sum of the numbers of the row's day values; it is
\* never read off a day cell or an input-control cell.
C35_TotalIsTotalCellOrSum ==
    (fret.fn = "native_row")
    => LET tds == fcall.tds
           totals == {k \in 1..Len(tds) : tds[k].role = "total"}
       IN /\ Len(fret.val) = 3
          /\ fret.val[3] = (IF totals = {} THEN SumOfDays(tds)
                            ELSE tds[CHOOSE k \in totals : TRUE].txt)

\* what login returns when its window timed out
LoginTimeoutResult == Ret(FALSE, "Login window timed out.", TRUE)

\* C36 as stated: when _run_napta_action comes back from a child process it
\* returns a result; ok=true only if the action returned ok=true, and then
\* with the action's message; ok=false with a message otherwise; and an
\* action's own failure is what it returns: when the login window was left
\* open until the time was over, it returns login's timeout result.
C36_ChildResultReachesTheShell ==
    [][(cli.at = "child" /\ cli'.at = "prompt")
         => /\ out'.kind = "returned"
            /\ out'.ok => (result.kind = "returned" /\ result.ok /\ out' = result)
            /\ ~out'.ok => out'.msg # ""
            /\ (op = "login" /\ pc = "login_poll") => out' = LoginTimeoutResult]_vars

\* where a direct-mode login has its own browser open
LoginBrowserUp == {"login_poll", "login_timeout"}

\* C37: a direct-mode login() has a browser of its own up exactly while it
\* polls for the sign-in or handles the timeout: the step that opens the
\* window launches one browser, every step that ends the login from there
\* (sign-in captured, timeout) takes that browser down again, a launch or
\* navigation that fails leaves none up, and no other step of login changes
\* the number of browsers; so no login browser is live once login has returned.
C37_LoginBrowserClosedOnReturn ==
    [][(op = "login")
         => live' = live + (IF pc' \in LoginBrowserUp THEN 1 ELSE 0)
                         - (IF pc \in LoginBrowserUp THEN 1 ELSE 0)]_vars

\* a login on a client with a session open has timed out and returned: the
\* session's browser is the only one up
C37_Witness ==
    /\ op = "login"
    /\ pc = "ret"
    /\ ret = LoginTimeoutResult
    /\ handles = AllHandles
    /\ live = 1

\* the messages of a call that declines the text or the command
Declined == {"none", "blocked", "ambiguous", "unknown"}

\* C38: handle_forget_command invokes a clearing operation only in a call in
\* which it asked for confirmation and the answer said yes; whatever else is
\* answered (anything that is not y or yes once blanks around it and case are
\* put aside, or the prompt interrupted), and whenever the command is blocked
\* for the flow, ambiguous, unknown or not a forget/reset command at all, the
\* call invokes no clearing operation and closes no client.
C38_ClearsOnlyAfterYes ==
    (fret.fn = "forget")
      => LET did == fret.val
         IN  /\ did.cleared # "none" => (did.asked /\ fcall.ans \in YesAnswers)
             /\ fcall.ans \notin YesAnswers
                  => (did.cleared = "none" /\ ~did.closed)
             /\ (~did.err /\ ~did.asked)
                  => (did.msg \in Declined /\ did.cleared = "none")
             /\ did.msg \in Declined => (did.cleared = "none" /\ ~did.closed)

\* "RESET Napta" with blanks around it, in the Napta flow with a client, and
\* "Y" answered: the Napta data is cleared and the client closed
C38_Witness ==
    /\ fret.fn = "forget"
    /\ fcall.text = Phrase(<<"", "RESET", "Napta", "">>)
    /\ fcall.flow = "napta"
    /\ fcall.ans = Typed(Phrase(<<"Y", "">>))
    /\ fret.val.asked
    /\ fret.val.cleared = "clear_napta"
    /\ fret.val.closed

====
